---- MODULE Spec2Model ----
(***************************************************************************)
(* Weekly stock recommendations: identity resolution (services/stock.py),  *)
(* two-phase merge, price enrichment and ranking of one week's snapshot    *)
(* (services/recommendation.py) over the snapshot store                    *)
(* (services/mongodb_db.py).                                               *)
(*                                                                         *)
(* Text is a sequence of one-character strings, so that the regular        *)
(* expressions and the string operations of the code are computed, not     *)
(* assumed.  An absent value (Python None, a missing key, '') is the empty *)
(* sequence; a present number v is the one-element sequence <<v>>.         *)
(***************************************************************************)
EXTENDS Integers, Sequences, FiniteSets, TLC

VARIABLES stocks, raw_text, messages, extracted, provider, quotes, op, ret, edits,
          query, result, netCalls, ranking, stats, ratings, kline, asked, weeks,
          outage, tracking, synced, inflight

vars ==
    <<stocks, raw_text, messages, extracted, provider, quotes, op, ret, edits,
      query, result, netCalls, ranking, stats, ratings, kline, asked, weeks,
      outage, tracking, synced, inflight>>

----------------------------------------------------------------------------
(* Bounds of the model *)

MaxItems == 2
MaxEdits == 1
MaxCands == 2
MaxRank == 4
MaxWeeks == 5
MaxTrend == 15
LastYear == 2026
MaxHistory == 16

----------------------------------------------------------------------------
(* Text *)

None == <<>>

Digits == {"0", "1", "2", "3", "4", "5", "6", "7", "8", "9"}

\* re.match(r'^\d{n}$', s)
IsDigits(s, n) == Len(s) = n /\ \A i \in 1..Len(s) : s[i] \in Digits

\* str.startswith(p)
StartsWith(s, p) == Len(s) >= Len(p) /\ SubSeq(s, 1, Len(p)) = p

\* str.upper() on the letters that occur in market prefixes
UpperChar(c) ==
    CASE c = "s" -> "S" [] c = "h" -> "H" [] c = "z" -> "Z"
      [] c = "b" -> "B" [] c = "j" -> "J" [] c = "o" -> "O"
      [] c = "f" -> "F" [] c = "k" -> "K" [] OTHER -> c

Upper(s) == [i \in 1..Len(s) |-> UpperChar(s[i])]

\* str.lower() on the market names _get_market_from_code returns
LowerChar(c) ==
    CASE c = "S" -> "s" [] c = "H" -> "h" [] c = "Z" -> "z"
      [] c = "B" -> "b" [] c = "J" -> "j" [] OTHER -> c

Lower(s) == [i \in 1..Len(s) |-> LowerChar(s[i])]

\* str.replace(sub, ''): every non-overlapping occurrence, left to right
RECURSIVE Remove(_, _)
Remove(s, sub) ==
    IF Len(sub) = 0 \/ Len(s) < Len(sub) THEN s
    ELSE IF SubSeq(s, 1, Len(sub)) = sub
         THEN Remove(SubSeq(s, Len(sub) + 1, Len(s)), sub)
         ELSE <<s[1]>> \o Remove(Tail(s), sub)

SH == <<"S", "H">>
SZ == <<"S", "Z">>
BJ == <<"B", "J">>
HK == <<"H", "K">>

----------------------------------------------------------------------------
(* Numbers.  A float of the code is the exact rational [n, d] in lowest     *)
(* terms, d > 0; round(x, k) rounds half to even as Python does on a value *)
(* it holds exactly.  A change_pct, which the code rounds to two decimals, *)
(* is held as a whole number of hundredths of a percent.                   *)

Abs(x) == IF x < 0 THEN -x ELSE x

RECURSIVE GCD(_, _)
GCD(a, b) == IF b = 0 THEN a ELSE GCD(b, a % b)

Rat(n, d) == LET g == GCD(Abs(n), d) IN [n |-> n \div g, d |-> d \div g]

Whole(k) == [n |-> k, d |-> 1]

RAdd(a, b) ==
    LET g == GCD(a.d, b.d)
    IN  Rat(a.n * (b.d \div g) + b.n * (a.d \div g), (a.d \div g) * b.d)

RSub(a, b) == RAdd(a, [n |-> -b.n, d |-> b.d])

RMul(a, b) ==
    LET g1 == GCD(Abs(a.n), b.d)
        g2 == GCD(Abs(b.n), a.d)
    IN  [n |-> (a.n \div g1) * (b.n \div g2), d |-> (a.d \div g2) * (b.d \div g1)]

\* a / k for a whole number k > 0
RDiv(a, k) == RMul(a, [n |-> 1, d |-> k])

RLess(a, b) == a.n * b.d < b.n * a.d

RMin(a, b) == IF RLess(b, a) THEN b ELSE a

RMax(a, b) == IF RLess(a, b) THEN b ELSE a

RECURSIVE RSum(_)
RSum(xs) == IF xs = <<>> THEN Whole(0) ELSE RAdd(Head(xs), RSum(Tail(xs)))

RECURSIVE Pow10(_)
Pow10(k) == IF k = 0 THEN 1 ELSE 10 * Pow10(k - 1)

\* round(a, k)
Round(a, k) ==
    LET s == Pow10(k)
        whole == a.n \div a.d
        t == (a.n % a.d) * s
        base == whole * s + (t \div a.d)
        rem == t % a.d
        up == 2 * rem > a.d \/ (2 * rem = a.d /\ base % 2 = 1)
    IN  Rat(IF up THEN base + 1 ELSE base, s)

----------------------------------------------------------------------------
(* services/stock.py *)

GetMarketFromCode_No68(code) ==
    IF StartsWith(code, <<"6", "0">>) THEN SH
    ELSE IF StartsWith(code, <<"0", "0">>) \/ StartsWith(code, <<"3", "0">>) THEN SZ
    ELSE IF StartsWith(code, <<"8">>) \/ StartsWith(code, <<"4">>) \/ StartsWith(code, <<"9">>) THEN BJ
    ELSE SZ

\* _get_market_from_code
GetMarketFromCode(code) ==
    IF StartsWith(code, <<"6", "0">>) \/ StartsWith(code, <<"6", "8">>) THEN SH
    ELSE IF StartsWith(code, <<"0", "0">>) \/ StartsWith(code, <<"3", "0">>) THEN SZ
    ELSE IF StartsWith(code, <<"8">>) \/ StartsWith(code, <<"4">>) \/ StartsWith(code, <<"9">>) THEN BJ
    ELSE SZ

NoResult == [tag |-> "none", market |-> None, code |-> None, name |-> None]
Raised == [tag |-> "raise", market |-> None, code |-> None, name |-> None]
Found(m, c, n) == [tag |-> "ok", market |-> m, code |-> c, name |-> n]

\* One record of the provider's payload, already split at ',': the test the
\* loop of search_stock applies to it, and the result it returns for it.
HKMarketType == <<"3", "1">>

CandMarket(parts) == Upper(Remove(parts[4], parts[3]))

CandAccepted(parts) ==
    /\ Len(parts) > 4
    /\ \/ parts[2] = HKMarketType /\ IsDigits(parts[3], 5)
       \/ IsDigits(parts[3], 6) /\ CandMarket(parts) \in {SH, SZ, BJ}

CandResult(parts) ==
    IF parts[2] = HKMarketType /\ IsDigits(parts[3], 5)
    THEN Found(HK, parts[3], parts[1])
    ELSE Found(CandMarket(parts), parts[3], parts[1])

RECURSIVE ScanItems_Last(_)
ScanItems_Last(items) ==
    IF items = <<>> THEN NoResult
    ELSE LET rest == ScanItems_Last(Tail(items))
         IN  IF rest.tag = "ok" THEN rest
             ELSE IF CandAccepted(Head(items)) THEN CandResult(Head(items))
             ELSE NoResult

\* for item in items: ... return at the first accepted record
RECURSIVE ScanItems(_)
ScanItems(items) ==
    IF items = <<>> THEN NoResult
    ELSE IF CandAccepted(Head(items)) THEN CandResult(Head(items))
    ELSE ScanItems(Tail(items))

\* The body of the try block: requests.get may raise; a non-200 status, a
\* body without ="..." and an empty payload return None.
SearchBody(resp) ==
    IF resp.raises THEN Raised
    ELSE IF resp.status # 200 THEN NoResult
    ELSE IF ~resp.quoted THEN NoResult
    ELSE ScanItems(resp.items)

Guarded_NoExcept(r) == r

\* The except clause turns every exception into None.
Guarded(r) == IF r.tag = "raise" THEN NoResult ELSE r

search_stock(stock_name, resp) ==
    IF IsDigits(stock_name, 6)
    THEN Found(Lower(GetMarketFromCode(stock_name)), stock_name, None)
    ELSE Guarded(SearchBody(resp))

\* Number of requests search_stock sends for a name
SearchCalls(stock_name) == IF IsDigits(stock_name, 6) THEN 0 ELSE 1

----------------------------------------------------------------------------
(* Stock entries of a weekly snapshot *)

Stock(n, m, c, rs, o, cl, pct, st) ==
    [stock_name |-> n, market |-> m, stock_code |-> c, recommenders |-> rs,
     open_price |-> o, close_price |-> cl, change_pct |-> pct, status |-> st]

\* stock.get('market') and stock.get('stock_code')
HasCode(s) == s.market # None /\ s.stock_code # None

\* positions of the entries of list with the given name
NameIdx(list, n) == {i \in 1..Len(list) : list[i].stock_name = n}

Min(S) == CHOOSE x \in S : \A y \in S : x <= y

----------------------------------------------------------------------------
(* recommendation.py: parse_with_gemini, _merge_recommendations *)

\* merged[stock].add(recommender), in the order the names first appear
RECURSIVE MergeFold(_, _)
MergeFold(items, acc) ==
    IF items = <<>> THEN acc
    ELSE LET it == Head(items)
             at == NameIdx(acc, it.stock)
         IN  IF it.recommender = None \/ it.stock = None
             THEN MergeFold(Tail(items), acc)
             ELSE IF at = {}
             THEN MergeFold(Tail(items),
                      Append(acc, Stock(it.stock, None, None, {it.recommender},
                                        None, None, None, "pending")))
             ELSE LET i == Min(at)
                  IN  MergeFold(Tail(items),
                          [acc EXCEPT ![i].recommenders = @ \cup {it.recommender}])

merge_recommendations(items) == MergeFold(items, <<>>)

\* str.lstrip(chars), str.rstrip(chars), str.strip()
White == {" ", "\t"}

RECURSIVE LStrip(_, _)
LStrip(s, cs) == IF s # <<>> /\ Head(s) \in cs THEN LStrip(Tail(s), cs) ELSE s

RECURSIVE RStrip(_, _)
RStrip(s, cs) ==
    IF s # <<>> /\ s[Len(s)] \in cs THEN RStrip(SubSeq(s, 1, Len(s) - 1), cs) ELSE s

Strip(s) == RStrip(LStrip(s, White), White)

\* str.split(): the runs of non-blank characters
RECURSIVE SplitFold(_, _, _)
SplitFold(s, cur, acc) ==
    IF s = <<>> THEN (IF cur = <<>> THEN acc ELSE Append(acc, cur))
    ELSE IF Head(s) \in White
    THEN SplitFold(Tail(s), <<>>, IF cur = <<>> THEN acc ELSE Append(acc, cur))
    ELSE SplitFold(Tail(s), Append(cur, Head(s)), acc)

Split(s) == SplitFold(s, <<>>, <<>>)

\* item.get('original', '').strip()
Original(it) == IF "original" \in DOMAIN it THEN Strip(it.original) ELSE None

\* the message without the recommender's name at its start; the characters
\* stripped after the name are blank, colon, full-width colon and tab
StripName(msg, r) ==
    IF StartsWith(msg, r)
    THEN LStrip(SubSeq(msg, Len(r) + 1, Len(msg)), {" ", ":", "\t"})
    ELSE msg

MessageIdx(acc, r) == {i \in 1..Len(acc) : acc[i].recommender = r}

\* recommender_messages: the first non-empty original of every recommender,
\* in insertion order
RECURSIVE MessageFold(_, _)
MessageFold(items, acc) ==
    IF items = <<>> THEN acc
    ELSE LET it == Head(items)
             orig == Original(it)
         IN  IF /\ it.recommender # None /\ it.stock # None
                /\ orig # None /\ MessageIdx(acc, it.recommender) = {}
             THEN MessageFold(Tail(items),
                      Append(acc, [recommender |-> it.recommender,
                                   message |-> StripName(orig, it.recommender)]))
             ELSE MessageFold(Tail(items), acc)

recommender_messages(items) == MessageFold(items, <<>>)

\* What the extraction service answers: whether a token is configured, the
\* request gets through, its status, whether the body is JSON, its errcode,
\* whether content is JSON, and the items of content
Reply(tok, reach, st, body, err, cjson, its) ==
    [token |-> tok, reachable |-> reach, status |-> st, body_json |-> body,
     errcode |-> err, content_json |-> cjson, items |-> its]

RawItem(n, ss, o) == [name |-> n, stocks |-> ss, original |-> o]

\* one record per stock of an item that has a name and stocks
ExpandItem(item) ==
    LET name == Strip(item.name)
        each == Split(item.stocks)
    IN  IF name # None /\ item.stocks # None
        THEN [i \in 1..Len(each) |->
                 [recommender |-> name, stock |-> each[i],
                  original |-> Strip(item.original)]]
        ELSE <<>>

RECURSIVE Expand(_)
Expand(items) ==
    IF items = <<>> THEN <<>> ELSE ExpandItem(Head(items)) \o Expand(Tail(items))

\* _call_gemini_api either raises or returns the expanded list
Outcome(r, its) == [raised |-> r, items |-> its]

call_gemini_api(a) ==
    IF ~a.token \/ ~a.reachable \/ a.status # 200 \/ ~a.body_json \/ a.errcode # 0
    THEN Outcome(TRUE, <<>>)
    ELSE IF ~a.content_json THEN Outcome(FALSE, <<>>)
    ELSE Outcome(FALSE, Expand(a.items))

\* The week's document: stocks, raw_text, recommender_messages
Doc(st, rt, ms) == [stocks |-> st, raw_text |-> rt, messages |-> ms]

\* A save that keeps the prices stored under the same name
save_week_data_KeepPrices(doc, st, rt, ms) ==
    Doc([i \in 1..Len(st) |->
            IF \E j \in 1..Len(doc.stocks) :
                   /\ doc.stocks[j].stock_name = st[i].stock_name
                   /\ doc.stocks[j].open_price # <<>>
            THEN LET j == CHOOSE x \in 1..Len(doc.stocks) :
                              /\ doc.stocks[x].stock_name = st[i].stock_name
                              /\ doc.stocks[x].open_price # <<>>
                 IN  [st[i] EXCEPT !.open_price = doc.stocks[j].open_price,
                                   !.close_price = doc.stocks[j].close_price,
                                   !.change_pct = doc.stocks[j].change_pct,
                                   !.status = doc.stocks[j].status]
            ELSE st[i]], rt, ms)

\* mongodb_db.py save_week_data: $set of stocks, raw_text, recommender_messages
save_week_data(doc, st, rt, ms) == Doc(st, rt, ms)

\* mongodb_db.py _save_raw_text: $set of raw_text and recommender_messages
save_raw_text(doc, rt, ms) == Doc(doc.stocks, rt, ms)

ParseResult(doc, failed) == [doc |-> doc, failed |-> failed]

parse_with_gemini_SaveFirst(doc, outcome) ==
    IF doc.raw_text = None \/ outcome.raised THEN ParseResult(doc, TRUE)
    ELSE ParseResult(save_week_data(doc, merge_recommendations(outcome.items),
                                    doc.raw_text, recommender_messages(outcome.items)),
                     outcome.items = <<>>)

\* parse_with_gemini on the week's document, given what _call_gemini_api does
parse_with_gemini(doc, outcome) ==
    IF doc.raw_text = None THEN ParseResult(doc, TRUE)
    ELSE IF outcome.raised THEN ParseResult(doc, TRUE)
    ELSE IF outcome.items = <<>> THEN ParseResult(doc, TRUE)
    ELSE ParseResult(save_week_data(doc, merge_recommendations(outcome.items),
                                    doc.raw_text, recommender_messages(outcome.items)),
                     FALSE)

----------------------------------------------------------------------------
(* recommendation.py: resolve_stock_codes *)

\* Step 1: name_map, in insertion order
RECURSIVE NameFold(_, _)
NameFold(list, acc) ==
    IF list = <<>> THEN acc
    ELSE LET s == Head(list)
             at == NameIdx(acc, s.stock_name)
         IN  IF s.stock_name = None THEN NameFold(Tail(list), acc)
             ELSE IF at = {} THEN NameFold(Tail(list), Append(acc, s))
             ELSE LET i == Min(at)
                      u == [acc[i] EXCEPT !.recommenders = @ \cup s.recommenders]
                      v == IF HasCode(s)
                           THEN [u EXCEPT !.market = s.market,
                                          !.stock_code = s.stock_code,
                                          !.status = s.status]
                           ELSE u
                  IN  NameFold(Tail(list), [acc EXCEPT ![i] = v])

\* Step 1 without the union: the first entry of each name as it is
PhaseA_FirstOnly(list) ==
    LET firsts == {i \in 1..Len(list) :
                      /\ list[i].stock_name # <<>>
                      /\ i = Min(NameIdx(list, list[i].stock_name))}
    IN  [k \in 1..Cardinality(firsts) |->
            list[CHOOSE i \in firsts : Cardinality({j \in firsts : j < i}) = k - 1]]

PhaseA(list) == NameFold(list, <<>>)

\* The lookup loop: what search_stock answers for one entry, and the entry
\* after the loop body.
Lookup(s, prov) == search_stock(s.stock_name, prov[s.stock_name])

ResolveOne(s, prov) ==
    IF HasCode(s) THEN s
    ELSE LET r == Lookup(s, prov)
         IN  IF r.tag = "ok"
             THEN [s EXCEPT !.market = r.market,
                            !.stock_code = r.code,
                            !.status = "resolved",
                            !.stock_name = IF r.name # None /\ r.name # s.stock_name
                                           THEN r.name ELSE @]
             ELSE s

ResolveLoop(list, prov) == [i \in 1..Len(list) |-> ResolveOne(list[i], prov)]

Searched(list) == {i \in 1..Len(list) : ~HasCode(list[i])}
SuccessIdx(list, prov) == {i \in Searched(list) : Lookup(list[i], prov).tag = "ok"}
ErrorIdx(list, prov) == {i \in Searched(list) : Lookup(list[i], prov).tag = "none"}
RaiseIdx(list, prov) == {i \in Searched(list) : Lookup(list[i], prov).tag = "raise"}

\* Step 2: code_map, in insertion order; an element is <<key, stock>>
NoCodePrefix == <<"_", "n", "o", "_", "c", "o", "d", "e", "_">>

CodeKey_OneNoCodeKey(s) ==
    IF ~HasCode(s) THEN NoCodePrefix
    ELSE s.market \o <<"_">> \o s.stock_code

CodeKey(s) ==
    IF ~HasCode(s) THEN NoCodePrefix \o s.stock_name
    ELSE s.market \o <<"_">> \o s.stock_code

KeyIdx(acc, k) == {i \in 1..Len(acc) : acc[i][1] = k}

RECURSIVE CodeFold(_, _)
CodeFold(list, acc) ==
    IF list = <<>> THEN acc
    ELSE LET s == Head(list)
             k == CodeKey(s)
             at == KeyIdx(acc, k)
         IN  IF at = {} THEN CodeFold(Tail(list), Append(acc, <<k, s>>))
             ELSE LET i == Min(at)
                  IN  IF ~HasCode(s)
                      THEN CodeFold(Tail(list), [acc EXCEPT ![i] = <<k, s>>])
                      ELSE CodeFold(Tail(list),
                               [acc EXCEPT ![i][2].recommenders = @ \cup s.recommenders])

PhaseB_NoMerge(list) == list

PhaseB(list) ==
    LET m == CodeFold(list, <<>>) IN [i \in 1..Len(m) |-> m[i][2]]

\* The list resolve_stock_codes saves and the counts it returns
ResolvedStocks(list, prov) == PhaseB(ResolveLoop(PhaseA(list), prov))

ResolveReturn(list, prov) ==
    LET a == PhaseA(list)
        b == ResolveLoop(a, prov)
    IN  [success |-> Cardinality(SuccessIdx(a, prov)),
         error |-> Cardinality(ErrorIdx(a, prov)),
         merged |-> (Len(list) - Len(a)) + (Len(b) - Len(PhaseB(b)))]

----------------------------------------------------------------------------
(* mongodb_db.py: update_stock, update_stock_full *)

\* update_stock: the first entry with the name receives the updates
update_stock(list, n, k) ==
    IF NameIdx(list, n) = {} THEN list
    ELSE [list EXCEPT ![Min(NameIdx(list, n))] =
             [@ EXCEPT !.open_price = k.open_price,
                       !.close_price = k.close_price,
                       !.change_pct = k.change_pct,
                       !.status = "completed"]]

\* update_stock_full: new_data.get(field, current value) on the first entry
\* with the old name; an absent field of new_data is None here
update_stock_full(list, old, nd) ==
    IF NameIdx(list, old) = {} THEN list
    ELSE [list EXCEPT ![Min(NameIdx(list, old))] =
             [@ EXCEPT !.stock_name = IF nd.stock_name # None THEN nd.stock_name ELSE @,
                       !.market = IF nd.market # None THEN nd.market ELSE @,
                       !.stock_code = IF nd.stock_code # None THEN nd.stock_code ELSE @,
                       !.recommenders = IF nd.recommenders # None THEN nd.recommenders[1] ELSE @]]

----------------------------------------------------------------------------
(* services/ashare.py: get_price_day_tx, get_price_sina, get_price, get_kline *)

\* One daily bar; day counts the days from the Monday of the week, so the
\* week's window [Monday, Friday] is 0..4
Bar(day, o, c) == [day |-> day, open |-> o, close |-> c]

\* What a quote provider does when asked: it raises or it returns bars
Answer(r, bars) == [raises |-> r, bars |-> bars]

Raises == Answer(TRUE, <<>>)

\* The two providers' answers for one symbol
Quote(p, s) == [primary |-> p, secondary |-> s]

NoQuote == Quote(Raises, Raises)

\* get_price_day_tx: any error, and an empty buffer, is raised
get_price_day_tx(a) == IF a.raises \/ a.bars = <<>> THEN Raises ELSE a

\* get_price_sina: any error is raised again
get_price_sina(a) == IF a.raises THEN Raises ELSE a

\* get_price: the frame returned (or the exception), and the providers asked
get_price(q) ==
    LET tx == get_price_day_tx(q.primary)
    IN  IF tx.raises
        THEN [df |-> get_price_sina(q.secondary), asked |-> <<"tx", "sina">>]
        ELSE [df |-> tx, asked |-> <<"tx">>]

InWeek(b) == b.day >= 0 /\ b.day <= 4

Kline(o, c, p) == [open_price |-> <<o>>, close_price |-> <<c>>, change_pct |-> <<p>>]

\* round((close_price - open_price) / open_price * 100, 2), in hundredths
ChangePct(o, c) ==
    LET r == Round(Rat((c - o) * 100, o), 2) IN r.n * (100 \div r.d)

\* get_kline: None, or <<kline>>; every exception ends in None
ashare_get_kline(q) ==
    LET df == get_price(q).df
        week_df == SelectSeq(df.bars, InWeek)
    IN  IF df.raises THEN None
        ELSE IF df.bars = <<>> THEN None
        ELSE IF week_df = <<>> THEN None
        ELSE IF week_df[1].open = 0 THEN None
        ELSE <<Kline(week_df[1].open, week_df[Len(week_df)].close,
                     ChangePct(week_df[1].open, week_df[Len(week_df)].close))>>

----------------------------------------------------------------------------
(* recommendation.py: fetch_kline_data *)

\* stock.py get_kline: the quote providers answer for market + code as the
\* table q says, and raise for a symbol that is not in it
get_kline(q, market, code) ==
    ashare_get_kline(IF <<market, code>> \in DOMAIN q THEN q[<<market, code>>]
                     ELSE NoQuote)

\* The loop over the list read at the start; st is the stored list with the
\* counters, updated entry by entry.
RECURSIVE KlineFold(_, _, _)
KlineFold(list, q, st) ==
    IF list = <<>> THEN st
    ELSE LET s == Head(list)
             k == get_kline(q, s.market, s.stock_code)
         IN  IF ~HasCode(s)
             THEN KlineFold(Tail(list), q, [st EXCEPT !.error = @ + 1])
             ELSE IF k = None
             THEN KlineFold(Tail(list), q, [st EXCEPT !.error = @ + 1])
             ELSE IF NameIdx(st.db, s.stock_name) = {}
             THEN KlineFold(Tail(list), q, [st EXCEPT !.error = @ + 1])
             ELSE KlineFold(Tail(list), q,
                      [st EXCEPT !.db = update_stock(@, s.stock_name, k[1]),
                                 !.success = @ + 1])

fetch_kline_data(list, q) ==
    KlineFold(list, q, [db |-> list, success |-> 0, error |-> 0])

----------------------------------------------------------------------------
(* recommendation.py: get_ranking *)

\* sorted(with_pct, key=change_pct, reverse=True): a stable sort, equal keys
\* keep their order
RECURSIVE InsertDesc_Asc(_, _)
InsertDesc_Asc(sorted, s) ==
    IF sorted = <<>> THEN <<s>>
    ELSE IF Head(sorted).change_pct[1] <= s.change_pct[1]
         THEN <<Head(sorted)>> \o InsertDesc_Asc(Tail(sorted), s)
         ELSE <<s>> \o sorted

RECURSIVE InsertDesc_Unstable(_, _)
InsertDesc_Unstable(sorted, s) ==
    IF sorted = <<>> THEN <<s>>
    ELSE IF Head(sorted).change_pct[1] > s.change_pct[1]
         THEN <<Head(sorted)>> \o InsertDesc_Unstable(Tail(sorted), s)
         ELSE <<s>> \o sorted

RECURSIVE InsertDesc(_, _)
InsertDesc(sorted, s) ==
    IF sorted = <<>> THEN <<s>>
    ELSE IF Head(sorted).change_pct[1] >= s.change_pct[1]
         THEN <<Head(sorted)>> \o InsertDesc(Tail(sorted), s)
         ELSE <<s>> \o sorted

RECURSIVE SortDesc(_, _)
SortDesc(list, acc) ==
    IF list = <<>> THEN acc
    ELSE SortDesc(Tail(list), InsertDesc(acc, Head(list)))

\* ratings = {s['name']: s.get('rating', 'D') for s in stats}: one key per
\* stored record, a later record of the same name replacing an earlier one
recommender_ratings(st) ==
    [n \in {st[i].name : i \in 1..Len(st)} |->
        LET at == {i \in 1..Len(st) : st[i].name = n}
            last == CHOOSE i \in at : \A j \in at : j <= i
        IN  IF "rating" \in DOMAIN st[last] THEN st[last].rating ELSE "D"]

get_ranking(list) ==
    LET with_pct == SelectSeq(list, LAMBDA s : s.change_pct # None)
        without_pct == SelectSeq(list, LAMBDA s : s.change_pct = None)
    IN  SortDesc(with_pct, <<>>) \o without_pct

----------------------------------------------------------------------------
(* recommendation.py: calculate_recommender_stats *)

\* One weekly snapshot of the store
WeekDoc(y, w, ss) == [year |-> y, week |-> w, stocks |-> ss]

\* One append to recommender_data[recommender]['weeks'][week_key]
Mention(r, y, w, pct) == [name |-> r, year |-> y, week |-> w, change_pct |-> pct]

\* for recommender in stock.get('recommenders', []), skipped when change_pct
\* is None.  The entry of the model holds the recommenders as a set; ord is
\* the order in which the stored lists hold the names.
StockMentions(doc, s, ord) ==
    IF s.change_pct = None THEN <<>>
    ELSE LET rs == SelectSeq(ord, LAMBDA r : r \in s.recommenders)
         IN  [i \in 1..Len(rs) |->
                 Mention(rs[i], doc.year, doc.week, s.change_pct[1])]

RECURSIVE WeekMentions(_, _, _)
WeekMentions(doc, ss, ord) ==
    IF ss = <<>> THEN <<>>
    ELSE StockMentions(doc, Head(ss), ord) \o WeekMentions(doc, Tail(ss), ord)

\* for w in weeks: for stock in data.get('stocks', [])
RECURSIVE AllMentions(_, _)
AllMentions(ws, ord) ==
    IF ws = <<>> THEN <<>>
    ELSE WeekMentions(Head(ws), Head(ws).stocks, ord) \o AllMentions(Tail(ws), ord)

\* The keys of recommender_data, in insertion order
RECURSIVE FirstSeen(_, _)
FirstSeen(ms, acc) ==
    IF ms = <<>> THEN acc
    ELSE FirstSeen(Tail(ms),
             IF \E i \in 1..Len(acc) : acc[i] = Head(ms).name
             THEN acc ELSE Append(acc, Head(ms).name))

\* The week keys of one recommender
WeekKeys(ms, name) ==
    {<<ms[i].year, ms[i].week>> : i \in {j \in 1..Len(ms) : ms[j].name = name}}

\* (year, week) tuples compare by year first
KeyBefore(a, b) == a[1] < b[1] \/ (a[1] = b[1] /\ a[2] < b[2])

\* sorted(data['weeks'].keys())
RECURSIVE SortedKeys(_)
SortedKeys(S) ==
    IF S = {} THEN <<>>
    ELSE LET m == CHOOSE k \in S : \A o \in S : o = k \/ KeyBefore(k, o)
         IN  <<m>> \o SortedKeys(S \ {m})

\* data['weeks'][week_key], in percent
WeekReturns(ms, name, key) ==
    LET sel == SelectSeq(ms, LAMBDA m : m.name = name /\ <<m.year, m.week>> = key)
    IN  [i \in 1..Len(sel) |-> Rat(sel[i].change_pct, 100)]

NumPositive(xs) == Cardinality({i \in 1..Len(xs) : xs[i].n > 0})

NumNegative(xs) == Cardinality({i \in 1..Len(xs) : xs[i].n < 0})

Compound_Additive(nv, avg) == RAdd(nv, RDiv(avg, 100))

\* net_value *= (1 + week_avg / 100)
Compound(nv, avg) == RMul(nv, RAdd(Whole(1), RDiv(avg, 100)))

LoopStart ==
    [net_value |-> Whole(1), weekly_returns |-> <<>>, weekly_returns_list |-> <<>>,
     total_count |-> 0, win_count |-> 0]

\* for week_key in sorted_weeks
RECURSIVE WeekLoop(_, _, _, _)
WeekLoop(keys, ms, name, acc) ==
    IF keys = <<>> THEN acc
    ELSE LET week_returns == WeekReturns(ms, name, Head(keys))
             week_avg == RDiv(RSum(week_returns), Len(week_returns))
             nv == Compound(acc.net_value, week_avg)
         IN  WeekLoop(Tail(keys), ms, name,
                 [net_value |-> nv,
                  weekly_returns |-> Append(acc.weekly_returns, week_avg),
                  weekly_returns_list |->
                      Append(acc.weekly_returns_list,
                             [year |-> Head(keys)[1], week |-> Head(keys)[2],
                              return |-> Round(week_avg, 2),
                              net_value |-> Round(nv, 4),
                              stock_count |-> Len(week_returns)]),
                  total_count |-> acc.total_count + Len(week_returns),
                  win_count |-> acc.win_count + NumPositive(week_returns)])

win_rate_score(win_rate) == RMin(win_rate, Whole(100))

\* No lower clip
return_score_NoFloor(total_return) == RMin(RAdd(total_return, Whole(50)), Whole(100))

return_score(total_return) == RMin(RMax(RAdd(total_return, Whole(50)), Whole(0)), Whole(100))

avg_score(avg_return) ==
    RMin(RMax(RMul(RAdd(avg_return, Whole(5)), Whole(10)), Whole(0)), Whole(100))

weeks_score(total_weeks) ==
    IF total_weeks >= 3 THEN RMin(Rat(total_weeks * 100, 6), Whole(100))
    ELSE Rat(total_weeks * 50, 3)

\* One scale on both sides of five picks
count_score_OneScale(total_count) == RMin(Rat(total_count * 100, 15), Whole(100))

count_score(total_count) ==
    IF total_count >= 5 THEN RMin(Rat(total_count * 100, 15), Whole(100))
    ELSE Rat(total_count * 50, 5)

weeks_bonus_From70(total_weeks, positive_weeks, negative_weeks) ==
    IF total_weeks >= 4
    THEN IF positive_weeks = total_weeks
         THEN RMin(Whole(70 + (total_weeks - 4) * 5), Whole(100))
         ELSE IF negative_weeks = total_weeks
         THEN RMax(Whole(-50 - (total_weeks - 4) * 5), Whole(-100))
         ELSE IF negative_weeks > positive_weeks
         THEN Rat(-(negative_weeks * 50), total_weeks)
         ELSE Rat(positive_weeks * 50, total_weeks)
    ELSE Whole(0)

weeks_bonus(total_weeks, positive_weeks, negative_weeks) ==
    IF total_weeks >= 4
    THEN IF positive_weeks = total_weeks
         THEN RMin(Whole(75 + (total_weeks - 4) * 5), Whole(100))
         ELSE IF negative_weeks = total_weeks
         THEN RMax(Whole(-50 - (total_weeks - 4) * 5), Whole(-100))
         ELSE IF negative_weeks > positive_weeks
         THEN Rat(-(negative_weeks * 50), total_weeks)
         ELSE Rat(positive_weeks * 50, total_weeks)
    ELSE Whole(0)

confidence_Thirds(total_weeks) == RMin(Rat(total_weeks, 3), Whole(1))

confidence(total_weeks) == RMin(Rat(total_weeks, 2), Whole(1))

raw_score(wrs, rs, avs, ws, cs, wb) ==
    RSum(<<RMul(wrs, Rat(22, 100)), RMul(rs, Rat(23, 100)), RMul(avs, Rat(15, 100)),
           RMul(ws, Rat(10, 100)), RMul(cs, Rat(10, 100)), RMul(wb, Rat(20, 100))>>)

\* score = round(50 + (raw_score - 50) * confidence, 1)
damped_score(raw, conf) == Round(RAdd(Whole(50), RMul(RSub(raw, Whole(50)), conf)), 1)

rating_of_Strict(score) ==
    IF RLess(Whole(80), score) THEN "S"
    ELSE IF RLess(Whole(65), score) THEN "A"
    ELSE IF RLess(Whole(45), score) THEN "B"
    ELSE IF RLess(Whole(25), score) THEN "C"
    ELSE "D"

rating_of(score) ==
    IF ~RLess(score, Whole(80)) THEN "S"
    ELSE IF ~RLess(score, Whole(65)) THEN "A"
    ELSE IF ~RLess(score, Whole(45)) THEN "B"
    ELSE IF ~RLess(score, Whole(25)) THEN "C"
    ELSE "D"

RECURSIVE Reverse(_)
Reverse(xs) == IF xs = <<>> THEN <<>> ELSE Append(Reverse(Tail(xs)), Head(xs))

\* The values the loop body computes for one recommender
Locals(ms, name) ==
    LET lp == WeekLoop(SortedKeys(WeekKeys(ms, name)), ms, name, LoopStart)
        total_weeks == Len(lp.weekly_returns)
        total_return == RMul(RSub(lp.net_value, Whole(1)), Whole(100))
        avg_return == IF total_weeks > 0
                      THEN RDiv(RSum(lp.weekly_returns), total_weeks) ELSE Whole(0)
        win_rate == IF lp.total_count > 0
                    THEN Rat(lp.win_count * 100, lp.total_count) ELSE Whole(0)
        positive_weeks == NumPositive(lp.weekly_returns)
        negative_weeks == NumNegative(lp.weekly_returns)
        wb == weeks_bonus(total_weeks, positive_weeks, negative_weeks)
        conf == confidence(total_weeks)
        raw == raw_score(win_rate_score(win_rate), return_score(total_return),
                         avg_score(avg_return), weeks_score(total_weeks),
                         count_score(lp.total_count), wb)
    IN  [name |-> name, net_value |-> lp.net_value,
         total_count |-> lp.total_count, win_count |-> lp.win_count,
         total_weeks |-> total_weeks, positive_weeks |-> positive_weeks,
         negative_weeks |-> negative_weeks, total_return |-> total_return,
         avg_return |-> avg_return, win_rate |-> win_rate,
         weekly_win_rate |-> IF total_weeks > 0
                             THEN Rat(positive_weeks * 100, total_weeks) ELSE Whole(0),
         weeks_bonus |-> wb, confidence |-> conf, raw_score |-> raw,
         score |-> damped_score(raw, conf),
         weekly_returns_list |-> lp.weekly_returns_list]

\* result.append({...}); the details list is left out
AnalystRecord(l) ==
    [name |-> l.name, total_count |-> l.total_count, win_count |-> l.win_count,
     win_rate |-> Round(l.win_rate, 2), positive_weeks |-> l.positive_weeks,
     weeks_count |-> l.total_weeks,
     weekly_win_rate |-> Round(l.weekly_win_rate, 2),
     total_return |-> Round(l.total_return, 2),
     avg_return |-> Round(l.avg_return, 2),
     score |-> l.score, rating |-> rating_of(l.score),
     weekly_returns |-> Reverse(l.weekly_returns_list)]

\* result.sort(key=score, reverse=True): stable, equal scores keep the order
\* in which the recommenders were first met
RECURSIVE InsertScore(_, _)
InsertScore(sorted, r) ==
    IF sorted = <<>> THEN <<r>>
    ELSE IF ~RLess(Head(sorted).score, r.score)
         THEN <<Head(sorted)>> \o InsertScore(Tail(sorted), r)
         ELSE <<r>> \o sorted

RECURSIVE SortByScore(_, _)
SortByScore(list, acc) ==
    IF list = <<>> THEN acc
    ELSE SortByScore(Tail(list), InsertScore(acc, Head(list)))

calculate_recommender_stats(ws, ord) ==
    LET ms == AllMentions(ws, ord)
        names == FirstSeen(ms, <<>>)
        records == [i \in 1..Len(names) |-> AnalystRecord(Locals(ms, names[i]))]
    IN  SortByScore(records, <<>>)

save_recommender_stats_KeepOnEmpty(old, stats_list) ==
    IF stats_list # <<>> THEN stats_list ELSE old

\* mongodb_db.py save_recommender_stats: delete_many({}), then insert_many
save_recommender_stats(old, stats_list) ==
    LET cleared == <<>>
    IN  IF stats_list # <<>> THEN cleared \o stats_list ELSE cleared

\* mongodb_db.py delete_week of the i-th week document
delete_week(ws, i) == [j \in 1..(Len(ws) - 1) |-> IF j < i THEN ws[j] ELSE ws[j + 1]]

----------------------------------------------------------------------------
(* The values the model draws its inputs from *)

nA == <<"A">>
nB == <<"B">>
n600000 == <<"6", "0", "0", "0", "0", "0">>
c00981 == <<"0", "0", "9", "8", "1">>
c920116 == <<"9", "2", "0", "1", "1", "6">>
c159915 == <<"1", "5", "9", "9", "1", "5">>
t11 == <<"1", "1">>
t41 == <<"4", "1">>

Names == {nA, nB, n600000}
rP == <<"p">>
rQ == <<"q">>

Recommenders == {rP, rQ}

\* Provider answers.  A payload record is the list of its comma-separated
\* fields: name, market type, code, market+code, short name, ...
Resp(r, st, qd, it) == [raises |-> r, status |-> st, quoted |-> qd, items |-> it]

RespRaises == Resp(TRUE, 0, FALSE, <<>>)
RespStatus == Resp(FALSE, 500, FALSE, <<>>)
RespNoPayload == Resp(FALSE, 200, FALSE, <<>>)
Payload(items) == Resp(FALSE, 200, TRUE, items)

candShA == <<nA, t11, n600000, <<"s", "h">> \o n600000, nA>>
candShB == <<nB, t11, n600000, <<"s", "h">> \o n600000, nB>>
candHkA == <<nA, HKMarketType, c00981, c00981, nA>>
candBj == <<nB, t11, c920116, <<"b", "j">> \o c920116, nB>>
candShort == <<nA, t11, n600000, <<"s", "h">> \o n600000>>
candShortHk == <<nA, HKMarketType, c00981, c00981>>
candUs == <<nB, t41, <<"k", "o">>, <<"k", "o">>, nB>>
candFund == <<nB, t11, c159915, <<"o", "f">> \o c159915, nB>>
candBare == <<nB, t11, n600000, n600000, nB>>
candHk6 == <<nA, HKMarketType, n600000, <<"S", "H">> \o n600000, nA>>
candBlank == <<None>>

\* Answers used by the week's resolve step, per looked-up name; a six-digit
\* name is never sent to the provider
ResponsesFor(n) ==
    IF n = nA THEN {RespRaises, RespNoPayload, Payload(<<candShA>>),
                    Payload(<<candShort, candHkA>>)}
    ELSE IF n = nB THEN {RespStatus, Payload(<<candBlank, candShort>>),
                         Payload(<<candShA>>), Payload(<<candShB>>)}
    ELSE {RespRaises}

Providers == {f \in [Names -> UNION {ResponsesFor(n) : n \in Names}] :
                 \A n \in Names : f[n] \in ResponsesFor(n)}

\* Quote tables: <<market, code>> -> the two providers' answers
QuotePairs == {<<SH, n600000>>, <<Lower(SH), n600000>>, <<HK, c00981>>}

\* The week's table: the primary provider has the week's bars of SH600000,
\* both providers raise for sh600000, and the primary provider has only
\* bars of the week before for HK00981
QuoteTables ==
    {[p \in QuotePairs |->
         IF p[1] = SH
         THEN Quote(Answer(FALSE, <<Bar(0, 10, 10), Bar(4, 11, 11)>>), Raises)
         ELSE IF p[1] = HK
         THEN Quote(Answer(FALSE, <<Bar(-4, 10, 10), Bar(-3, 11, 11)>>), Raises)
         ELSE NoQuote]}

\* What the extraction service returns, expanded to one item per stock
Item(r, n) == [recommender |-> r, stock |-> n]
Items == {Item(r, n) : r \in Recommenders, n \in Names}

RECURSIVE SeqsUpTo(_, _)
SeqsUpTo(S, n) ==
    IF n = 0 THEN {<<>>}
    ELSE LET shorter == SeqsUpTo(S, n - 1)
         IN  shorter \cup {Append(q, x) : q \in {t \in shorter : Len(t) = n - 1}, x \in S}

\* The admin's edits of one entry
NewData(n, m, c) == [stock_name |-> n, market |-> m, stock_code |-> c, recommenders |-> None]

Edits == {NewData(nA, None, None), NewData(None, SH, n600000)}

\* Stores of weekly snapshots for calculate_recommender_stats
Priced(n, m, c, rs, pct) ==
    Stock(n, m, c, rs, <<100>>, <<100 + pct \div 100>>, <<pct>>, "completed")

Unpriced(n, rs) == Stock(n, None, None, rs, None, None, None, "pending")

nC == <<"C">>

\* The stock lists a week may hold: both analysts up 20 %; the first down
\* 20 % and the second without a price; the first with a mean of 20 % over
\* two stocks and the second up 40 %.
WeekUp == <<Priced(nA, SH, n600000, {rP}, 2000), Priced(nB, BJ, c920116, {rQ}, 2000)>>

WeekDown == <<Priced(nA, SH, n600000, {rP}, -2000), Unpriced(nB, {rQ})>>

WeekMixed ==
    <<Priced(nA, SH, n600000, {rP, rQ}, 4000), Priced(nB, BJ, c920116, {rP}, 0),
      Unpriced(nC, {rQ})>>

WeekChoices == {WeekUp, WeekDown, WeekMixed}

\* The i-th week of the store, across a change of year
ScoreWeekKey(i) == IF i <= 2 THEN <<2023, 50 + i>> ELSE <<2024, i - 2>>

\* get_all_weeks sorts by year and week, latest first
ScoreStores ==
    {[j \in 1..Len(c) |->
         LET i == Len(c) + 1 - j
         IN  WeekDoc(ScoreWeekKey(i)[1], ScoreWeekKey(i)[2], c[i])] :
       c \in SeqsUpTo(WeekChoices, MaxWeeks)}

RecommenderOrders == {<<rP, rQ>>, <<rQ, rP>>}

\* The analyst records a recompute over at most one week has stored
RankStores ==
    {calculate_recommender_stats(w, <<rP, rQ>>) : w \in {c \in ScoreStores : Len(c) <= 1}}

\* The raw text submit_raw_text stored for the week
RawText == <<"t">>

NoReturn == [success |-> 0, error |-> 0, merged |-> 0, failed |-> FALSE]

----------------------------------------------------------------------------
(* The week's snapshot under the admin operations *)

Init ==
    /\ outage = 0
    /\ tracking = <<>>
    /\ synced = {}
    /\ inflight = None
    /\ stocks = <<>>
    /\ raw_text = RawText
    /\ messages = <<>>
    /\ stats = <<>>
    /\ ratings = <<>>
    /\ kline = None
    /\ asked = <<>>
    /\ weeks = <<>>
    /\ extracted \in SeqsUpTo(Items, MaxItems)
    /\ provider \in Providers
    /\ quotes \in QuoteTables
    /\ op = "init"
    /\ ret = NoReturn
    /\ edits = 0
    /\ query = None
    /\ result = NoResult
    /\ netCalls = 0
    /\ ranking = <<>>

\* extracted is what the extraction service returns for the week's raw text
ParseWithGemini ==
    LET r == parse_with_gemini(Doc(stocks, raw_text, messages), Outcome(FALSE, extracted))
    IN  /\ stocks' = r.doc.stocks
        /\ raw_text' = r.doc.raw_text
        /\ messages' = r.doc.messages
        /\ ret' = [NoReturn EXCEPT !.failed = r.failed]
        /\ op' = "parse"
        /\ UNCHANGED <<extracted, provider, quotes, edits, query, result, netCalls,
                 ranking, stats, ratings, kline, asked, weeks,
                 outage, tracking, synced, inflight>>

ResolveStockCodes ==
    /\ IF RaiseIdx(PhaseA(stocks), provider) # {}
       THEN /\ ret' = [NoReturn EXCEPT !.failed = TRUE]
            /\ UNCHANGED stocks
       ELSE /\ stocks' = ResolvedStocks(stocks, provider)
            /\ ret' = [ResolveReturn(stocks, provider) @@ [failed |-> FALSE]
                          EXCEPT !.failed = FALSE]
    /\ op' = "resolve"
    /\ UNCHANGED <<extracted, provider, quotes, edits, query, result, netCalls,
                 ranking, raw_text, messages, stats, ratings, kline, asked, weeks,
                 outage, tracking, synced, inflight>>

FetchKlineData ==
    LET r == fetch_kline_data(stocks, quotes)
    IN  /\ stocks' = r.db
        /\ ret' = [NoReturn EXCEPT !.success = r.success, !.error = r.error]
        /\ op' = "fetch"
        /\ UNCHANGED <<extracted, provider, quotes, edits, query, result, netCalls,
                 ranking, raw_text, messages, stats, ratings, kline, asked, weeks,
                 outage, tracking, synced, inflight>>

UpdateStockFull ==
    /\ edits < MaxEdits
    /\ \E old \in Names, nd \in Edits :
        /\ NameIdx(stocks, old) # {}
        /\ stocks' = update_stock_full(stocks, old, nd)
    /\ edits' = edits + 1
    /\ op' = "edit"
    /\ ret' = NoReturn
    /\ UNCHANGED <<extracted, provider, quotes, query, result, netCalls, ranking,
                 raw_text, messages, stats, ratings, kline, asked, weeks,
                 outage, tracking, synced, inflight>>

Next ==
    \/ ParseWithGemini
    \/ ResolveStockCodes
    \/ FetchKlineData
    \/ UpdateStockFull

Spec == Init /\ [][Next]_vars

----------------------------------------------------------------------------
(* search_stock on its own: every name against every provider answer *)

CandPool ==
    {candShA, candHkA, candBj, candShort, candShortHk, candUs, candFund,
     candBare, candHk6, candBlank}

SearchResponses ==
    {RespRaises, RespStatus, RespNoPayload}
        \cup {Payload(it) : it \in SeqsUpTo(CandPool, MaxCands)}

SearchNames ==
    {nA, nB, c00981, n600000,
     <<"6", "8", "8", "9", "8", "1">>, <<"0", "0", "0", "0", "0", "1">>,
     <<"3", "0", "0", "7", "5", "0">>, <<"8", "3", "0", "0", "0", "0">>,
     <<"4", "3", "0", "0", "0", "0">>, c920116, c159915,
     <<"5", "1", "0", "3", "0", "0">>, <<"2", "0", "0", "0", "0", "0">>,
     <<"7", "0", "0", "0", "0", "0">>, <<"6", "1", "0", "0", "0", "0">>,
     <<"0", "6", "0", "0", "0", "0">>, <<"6", "0", "0", "0", "0", "0", "0">>}

InitSearch ==
    /\ outage = 0
    /\ tracking = <<>>
    /\ synced = {}
    /\ inflight = None
    /\ stocks = <<>>
    /\ raw_text = None
    /\ messages = <<>>
    /\ stats = <<>>
    /\ ratings = <<>>
    /\ kline = None
    /\ asked = <<>>
    /\ weeks = <<>>
    /\ extracted = <<>>
    /\ provider \in {[n \in SearchNames |-> r] : r \in SearchResponses}
    /\ quotes \in {[p \in QuotePairs |-> NoQuote]}
    /\ op = "init"
    /\ ret = NoReturn
    /\ edits = 0
    /\ query = None
    /\ result = NoResult
    /\ netCalls = 0
    /\ ranking = <<>>

SearchStock ==
    /\ \E n \in SearchNames :
        /\ query' = n
        /\ result' = search_stock(n, provider[n])
        /\ netCalls' = SearchCalls(n)
    /\ op' = "search"
    /\ UNCHANGED <<stocks, extracted, provider, quotes, ret, edits, ranking,
                 raw_text, messages, stats, ratings, kline, asked, weeks,
                 outage, tracking, synced, inflight>>

NextSearch == SearchStock

SpecSearch == InitSearch /\ [][NextSearch]_vars

----------------------------------------------------------------------------
(* get_ranking on its own: every stored list of up to MaxRank stocks *)

RankNames == <<nA, nB, <<"C">>, <<"D">>, <<"E">>, <<"F">>>>

RankPcts == {None, <<-3>>, <<0>>, <<5>>}

RankLists ==
    {[i \in 1..Len(ps) |->
         Stock(RankNames[i], None, None, {rP}, ps[i], ps[i], ps[i],
               IF ps[i] = None THEN "pending" ELSE "completed")] :
       ps \in SeqsUpTo(RankPcts, MaxRank)}

InitRank ==
    /\ outage = 0
    /\ tracking = <<>>
    /\ synced = {}
    /\ inflight = None
    /\ stocks \in RankLists
    /\ raw_text = None
    /\ messages = <<>>
    /\ stats \in RankStores
    /\ ratings = <<>>
    /\ kline = None
    /\ asked = <<>>
    /\ weeks = <<>>
    /\ extracted = <<>>
    /\ provider \in {[n \in Names |-> RespRaises]}
    /\ quotes \in {[p \in QuotePairs |-> NoQuote]}
    /\ op = "init"
    /\ ret = NoReturn
    /\ edits = 0
    /\ query = None
    /\ result = NoResult
    /\ netCalls = 0
    /\ ranking = <<>>

GetRanking ==
    /\ ranking' = get_ranking(stocks)
    /\ ratings' = recommender_ratings(stats)
    /\ op' = "ranking"
    /\ UNCHANGED <<stocks, extracted, provider, quotes, ret, edits, query, result,
                 netCalls, raw_text, messages, stats, kline, asked, weeks,
                 outage, tracking, synced, inflight>>

NextRank == GetRanking

SpecRank == InitRank /\ [][NextRank]_vars

----------------------------------------------------------------------------
(* Properties of resolve_stock_codes *)

\* Resolved entries are unique by (market, code), the others by stockName.
UniqueSnapshot(list) ==
    \A i, j \in 1..Len(list) :
        i < j =>
            /\ HasCode(list[i]) /\ HasCode(list[j]) =>
                   <<list[i].market, list[i].stock_code>> # <<list[j].market, list[j].stock_code>>
            /\ ~HasCode(list[i]) /\ ~HasCode(list[j]) =>
                   list[i].stock_name # list[j].stock_name

\* C1: every snapshot resolve_stock_codes stores, whatever list it started
\* from, has no two entries with the same (market, code) and no two entries
\* without a code with the same stockName; the snapshot parse_with_gemini
\* stores has the property too, and fetch_kline_data preserves it.
C1_UniqueAfterResolve ==
    [][/\ (op' \in {"resolve", "parse"} /\ ~ret'.failed) => UniqueSnapshot(stocks')
       /\ (op' = "fetch" /\ UniqueSnapshot(stocks)) => UniqueSnapshot(stocks')]_vars

\* A resolve that started from an edited list and merged entries of it.
C1_Witness ==
    /\ op = "resolve" /\ ~ret.failed /\ ret.merged > 0 /\ edits > 0
    /\ Len(stocks) >= 1

\* The entries of the stored list that carry the code c
WithCode(list, c) == {k \in 1..Len(list) : list[k].stock_code = c}

\* C2: two entries with different literal names that the resolver maps to
\* the same security code are one entry after resolve_stock_codes, holding
\* the recommenders of both (also when one name is the six-digit code).
C2_SameCodeCollapses ==
    [][(op' = "resolve" /\ ~ret'.failed) =>
          \A i, j \in 1..Len(stocks) :
              LET si == stocks[i]
                  sj == stocks[j]
                  ri == Lookup(si, provider)
                  rj == Lookup(sj, provider)
              IN  (/\ si.stock_name # None /\ sj.stock_name # None
                   /\ si.stock_name # sj.stock_name
                   /\ ~HasCode(si) /\ ~HasCode(sj)
                   /\ ri.tag = "ok" /\ rj.tag = "ok"
                   /\ ri.code = rj.code)
                  => /\ Cardinality(WithCode(stocks', ri.code)) = 1
                     /\ \A k \in WithCode(stocks', ri.code) :
                            si.recommenders \cup sj.recommenders
                                \subseteq stocks'[k].recommenders]_vars

\* C3: a second resolve_stock_codes on the list the first one stored, with
\* the provider answering as before, changes neither the number of entries
\* nor any entry's recommender set.
C3_ResolveIdempotent ==
    [][(op = "resolve" /\ ~ret.failed /\ op' = "resolve" /\ ~ret'.failed) =>
          /\ Len(stocks') = Len(stocks)
          /\ \A i \in 1..Len(stocks) :
                 stocks'[i].recommenders = stocks[i].recommenders]_vars

\* C4: every entry without market or code after the lookup loop is in the
\* stored list under its own name, with its recommenders, still unresolved.
C4_UnresolvedKept ==
    [][(op' = "resolve" /\ ~ret'.failed) =>
          LET mid == ResolveLoop(PhaseA(stocks), provider)
          IN  \A i \in 1..Len(mid) :
                  ~HasCode(mid[i]) =>
                      \E j \in 1..Len(stocks') :
                          /\ stocks'[j].stock_name = mid[i].stock_name
                          /\ stocks'[j].recommenders = mid[i].recommenders
                          /\ ~HasCode(stocks'[j])]_vars

\* Two unresolved entries stored by a resolve that counted their lookups as
\* errors.
C4_Witness ==
    /\ op = "resolve" /\ ~ret.failed /\ ret.error >= 2
    /\ \E i, j \in 1..Len(stocks) :
           /\ i # j
           /\ ~HasCode(stocks[i]) /\ ~HasCode(stocks[j])

Max(S) == CHOOSE x \in S : \A y \in S : x >= y

\* C5: step 1 of resolve_stock_codes groups the entries with one stockName
\* into one entry with the union of their recommenders and the (market, code)
\* of the latest entry that carries one; the status of an entry merged from
\* several agrees with its fields: resolved or completed with a code, pending
\* without, completed only with price data.
C5_PhaseAStatus ==
    [][op' = "resolve" =>
          LET a == PhaseA(stocks)
          IN  /\ \A k1, k2 \in 1..Len(a) :
                     k1 # k2 => a[k1].stock_name # a[k2].stock_name
              /\ \A k \in 1..Len(a) :
                     LET e == a[k]
                         grp == NameIdx(stocks, e.stock_name)
                         coded == {i \in grp : HasCode(stocks[i])}
                     IN  /\ e.recommenders = UNION {stocks[i].recommenders : i \in grp}
                         /\ coded # {} =>
                                /\ e.market = stocks[Max(coded)].market
                                /\ e.stock_code = stocks[Max(coded)].stock_code
                         /\ Cardinality(grp) > 1 =>
                                /\ HasCode(e) => e.status \in {"resolved", "completed"}
                                /\ ~HasCode(e) => e.status = "pending"
                                /\ e.status = "completed" => e.change_pct # None]_vars

----------------------------------------------------------------------------
(* Properties of search_stock *)

Prefix2(s) == SubSeq(s, 1, 2)

\* C6 as stated: a six-digit name gets, without a request, its own code and
\* the market SH for 60/68, SZ for 00/30 and BJ for every other prefix (the
\* market compared without regard to case).
C6_SixDigitOtherwiseBJ ==
    (op = "search" /\ IsDigits(query, 6)) =>
        /\ netCalls = 0
        /\ result.tag = "ok"
        /\ result.code = query
        /\ Upper(result.market) =
               IF Prefix2(query) \in {<<"6", "0">>, <<"6", "8">>} THEN SH
               ELSE IF Prefix2(query) \in {<<"0", "0">>, <<"3", "0">>} THEN SZ
               ELSE BJ

\* C6: a six-digit name gets, without a request, its own code, no name and
\* the lower-case market sh for 60/68, sz for 00/30, bj for a first digit 8,
\* 4 or 9, and sz for every other prefix.
C6_SixDigitMarket ==
    (op = "search" /\ IsDigits(query, 6)) =>
        /\ netCalls = 0
        /\ result.tag = "ok"
        /\ result.code = query
        /\ result.name = None
        /\ result.market =
               IF Prefix2(query) \in {<<"6", "0">>, <<"6", "8">>} THEN <<"s", "h">>
               ELSE IF Prefix2(query) \in {<<"0", "0">>, <<"3", "0">>} THEN <<"s", "z">>
               ELSE IF query[1] \in {"8", "4", "9"} THEN <<"b", "j">>
               ELSE <<"s", "z">>

\* A code outside 60/68/00/30/8/4/9 was looked up and classified sz.
C6_Witness ==
    /\ op = "search" /\ IsDigits(query, 6)
    /\ query[1] \in {"1", "2", "5", "7"}
    /\ result.market = <<"s", "z">>
    /\ netCalls = 0

\* The candidate list of the answer to the query: empty unless the request
\* succeeded with status 200 and a quoted payload
CandidateList == IF provider[query].raises \/ provider[query].status # 200
                     \/ ~provider[query].quoted
                 THEN <<>> ELSE provider[query].items

IsHongKong(parts) == parts[2] = <<"3", "1">> /\ IsDigits(parts[3], 5)

IsAShare(parts) ==
    /\ IsDigits(parts[3], 6)
    /\ \E m \in {SH, SZ, BJ} : Upper(Remove(parts[4], parts[3])) = m

ExpectedFor(parts) ==
    IF IsHongKong(parts) THEN Found(HK, parts[3], parts[1])
    ELSE Found(Upper(Remove(parts[4], parts[3])), parts[3], parts[1])

\* C7 as stated: for a name that is not six digits the result is the first
\* candidate (name, marketTypeCode, code, compositeCode) that is a Hong-Kong
\* five-digit code or a six-digit code with a composite market in SH/SZ/BJ,
\* and None exactly when there is no such candidate.
C7_FirstOfFourFields ==
    (op = "search" /\ ~IsDigits(query, 6)) =>
        LET ok == {i \in 1..Len(CandidateList) :
                      /\ Len(CandidateList[i]) >= 4
                      /\ IsHongKong(CandidateList[i]) \/ IsAShare(CandidateList[i])}
        IN  IF ok = {} THEN result = NoResult
            ELSE result = ExpectedFor(CandidateList[Min(ok)])

\* C7: the same, among the candidate records with more than four
\* comma-separated fields; a record of four fields or fewer is passed over.
C7_FirstCandidate ==
    (op = "search" /\ ~IsDigits(query, 6)) =>
        LET ok == {i \in 1..Len(CandidateList) :
                      /\ Len(CandidateList[i]) > 4
                      /\ IsHongKong(CandidateList[i]) \/ IsAShare(CandidateList[i])}
        IN  IF ok = {} THEN result = NoResult
            ELSE result = ExpectedFor(CandidateList[Min(ok)])

\* Two acceptable candidates of different markets: the first one is returned.
C7_Witness ==
    /\ op = "search" /\ ~IsDigits(query, 6)
    /\ CandidateList = <<candHkA, candShA>>
    /\ result = Found(HK, c00981, nA)

\* The answer gives search_stock nothing to return: the request raised, the
\* status is not 200, the body has no quoted payload, or no record of the
\* payload is an acceptable candidate.
Unusable(resp) ==
    \/ resp.raises
    \/ resp.status # 200
    \/ ~resp.quoted
    \/ \A i \in 1..Len(resp.items) : ~CandAccepted(resp.items[i])

\* C8: search_stock never raises; for an unusable answer it returns None,
\* and resolve_stock_codes counts that entry as an error, stores it with
\* market, code and status unchanged, and goes on to the other entries.
C8_LookupFailureCounted ==
    [][op' = "resolve" =>
          LET a == PhaseA(stocks)
              bad == {i \in Searched(a) :
                         /\ ~IsDigits(a[i].stock_name, 6)
                         /\ Unusable(provider[a[i].stock_name])}
          IN  /\ ~ret'.failed
              /\ ret'.error = Cardinality(bad)
              /\ ret'.success = Cardinality(Searched(a) \ bad)
              /\ \A i \in bad : \E j \in 1..Len(stocks') : stocks'[j] = a[i]
              /\ \A i \in Searched(a) \ bad :
                     \E j \in 1..Len(stocks') :
                         /\ HasCode(stocks'[j])
                         /\ a[i].recommenders \subseteq stocks'[j].recommenders]_vars

\* The request for the first entry raised; the entry stays pending and the
\* entry after it was resolved.
C8_Witness ==
    /\ op = "resolve" /\ ~ret.failed /\ ret.error = 1 /\ ret.success = 1
    /\ Len(stocks) = 2
    /\ ~HasCode(stocks[1]) /\ stocks[1].status = "pending"
    /\ provider[stocks[1].stock_name].raises
    /\ stocks[2].status = "resolved"

----------------------------------------------------------------------------
(* Properties of get_ranking *)

Count(list, x) == Cardinality({i \in 1..Len(list) : list[i] = x})

\* C9: in the ranking every stock with a changePct precedes every stock
\* without, changePct does not increase along the first group, and the
\* ranking is a permutation of the stored stocks.
C9_RankingOrder ==
    op = "ranking" =>
        /\ \A i, j \in 1..Len(ranking) :
               i < j =>
                   /\ ranking[i].change_pct = None => ranking[j].change_pct = None
                   /\ (ranking[i].change_pct # None /\ ranking[j].change_pct # None)
                          => ranking[i].change_pct[1] >= ranking[j].change_pct[1]
        /\ Len(ranking) = Len(stocks)
        /\ \A i \in 1..Len(stocks) : Count(ranking, stocks[i]) = Count(stocks, stocks[i])

\* A ranking that moved a stock with a higher changePct ahead of an earlier
\* one and left a stock without changePct behind both.
C9_Witness ==
    /\ op = "ranking" /\ Len(stocks) >= 3
    /\ stocks[1].change_pct = None
    /\ stocks[2].change_pct = <<-3>> /\ stocks[3].change_pct = <<5>>
    /\ ranking[1] = stocks[3] /\ ranking[2] = stocks[2]

Pos(list, x) == Min({i \in 1..Len(list) : list[i] = x})

\* C10: two stocks with equal changePct, and two stocks without changePct,
\* are ranked in the order the snapshot stores them.
C10_RankingStable ==
    op = "ranking" =>
        \A i, j \in 1..Len(stocks) :
            (i < j /\ stocks[i].change_pct = stocks[j].change_pct)
                => Pos(ranking, stocks[i]) < Pos(ranking, stocks[j])

\* Two stocks with the same changePct behind a lower one: the sort moved both
\* and kept their order.
C10_Witness ==
    /\ op = "ranking" /\ Len(stocks) >= 4
    /\ stocks[1].change_pct = <<0>>
    /\ stocks[2].change_pct = <<5>> /\ stocks[3].change_pct = <<5>>
    /\ stocks[4].change_pct = None
    /\ ranking[1] = stocks[2] /\ ranking[2] = stocks[3]

----------------------------------------------------------------------------
(* calculate_recommender_stats over a store of weekly snapshots *)

InitScore ==
    /\ outage = 0
    /\ tracking = <<>>
    /\ synced = {}
    /\ inflight = None
    /\ weeks \in ScoreStores
    /\ stats = <<>>
    /\ stocks = <<>>
    /\ raw_text = None
    /\ messages = <<>>
    /\ extracted = <<>>
    /\ provider \in {[n \in Names |-> RespRaises]}
    /\ quotes \in {[p \in QuotePairs |-> NoQuote]}
    /\ op = "init"
    /\ ret = NoReturn
    /\ edits = 0
    /\ query = None
    /\ result = NoResult
    /\ netCalls = 0
    /\ ranking = <<>>
    /\ ratings = <<>>
    /\ kline = None
    /\ asked = <<>>

CalculateRecommenderStats ==
    /\ \E ord \in RecommenderOrders :
           stats' = save_recommender_stats(stats, calculate_recommender_stats(weeks, ord))
    /\ op' = "stats"
    /\ ret' = NoReturn
    /\ UNCHANGED <<stocks, raw_text, messages, extracted, provider, quotes, edits,
                   query, result, netCalls, ranking, ratings, kline, asked, weeks,
                 outage, tracking, synced, inflight>>

DeleteWeek ==
    /\ edits < MaxEdits
    /\ \E i \in 1..Len(weeks) : weeks' = delete_week(weeks, i)
    /\ edits' = edits + 1
    /\ op' = "delete"
    /\ ret' = NoReturn
    /\ UNCHANGED <<stocks, raw_text, messages, extracted, provider, quotes,
                   query, result, netCalls, ranking, stats, ratings, kline, asked,
                 outage, tracking, synced, inflight>>

NextScore == CalculateRecommenderStats \/ DeleteWeek

SpecScore == InitScore /\ [][NextScore]_vars

----------------------------------------------------------------------------
(* Properties of the rating lookup of get_ranking *)

\* The analysts who recommend a stock of the ranked week
WeekAnalysts(list) == UNION {list[i].recommenders : i \in 1..Len(list)}

\* The analysts with a record in the store
StoredAnalysts(st) == {st[i].name : i \in 1..Len(st)}

\* C11: the rating lookup get_ranking returns gives every analyst of the
\* store the rating letter of its record, and gives "D" to every analyst who
\* recommends a stock of the ranked week and has no record in the store.
C11_RatingLookup ==
    op = "ranking" =>
        /\ \A i \in 1..Len(stats) :
               /\ stats[i].name \in DOMAIN ratings
               /\ ratings[stats[i].name] = stats[i].rating
        /\ \A r \in WeekAnalysts(stocks) \ StoredAnalysts(stats) :
               /\ r \in DOMAIN ratings
               /\ ratings[r] = "D"

----------------------------------------------------------------------------
(* get_kline on its own: one symbol against every pair of provider answers *)

MaxBars == 2

\* The last Friday before the week, three days of the week (one of them with
\* an opening price of 0) and the week's Friday
BarPool == {Bar(-3, 9, 9), Bar(0, 10, 10), Bar(1, 0, 10), Bar(2, 10, 12), Bar(4, 12, 8)}

\* Providers return their bars in the order of the days
BarSeqs ==
    {b \in SeqsUpTo(BarPool, MaxBars) :
        \A i, j \in 1..Len(b) : i < j => b[i].day < b[j].day}

KlineAnswers == {Raises} \cup {Answer(FALSE, b) : b \in BarSeqs}

KlineSymbol == <<SH, n600000>>

InitKline ==
    /\ outage = 0
    /\ tracking = <<>>
    /\ synced = {}
    /\ inflight = None
    /\ quotes \in {[p \in {KlineSymbol} |-> Quote(a, b)] :
                      a \in KlineAnswers, b \in KlineAnswers}
    /\ kline = None
    /\ asked = <<>>
    /\ stocks = <<>>
    /\ raw_text = None
    /\ messages = <<>>
    /\ extracted = <<>>
    /\ provider \in {[n \in Names |-> RespRaises]}
    /\ op = "init"
    /\ ret = NoReturn
    /\ edits = 0
    /\ query = None
    /\ result = NoResult
    /\ netCalls = 0
    /\ ranking = <<>>
    /\ stats = <<>>
    /\ ratings = <<>>
    /\ weeks = <<>>

GetKline ==
    /\ kline' = get_kline(quotes, KlineSymbol[1], KlineSymbol[2])
    /\ asked' = get_price(quotes[KlineSymbol]).asked
    /\ op' = "kline"
    /\ UNCHANGED <<stocks, raw_text, messages, extracted, provider, quotes, ret, edits,
                   query, result, netCalls, ranking, stats, ratings, weeks,
                 outage, tracking, synced, inflight>>

NextKline == GetKline

SpecKline == InitKline /\ [][NextKline]_vars

----------------------------------------------------------------------------
(* Properties of the price enrichment *)

\* The secondary provider was asked
AskedSecondary == \E i \in 1..Len(asked) : asked[i] = "sina"

\* The primary provider raised (an empty answer is raised as "no data")
PrimaryRaised(q) == q.primary.raises \/ q.primary.bars = <<>>

\* The primary provider returned bars, none of them dated within the week
PrimaryOutsideWeek(q) ==
    /\ ~PrimaryRaised(q)
    /\ \A i \in 1..Len(q.primary.bars) :
           q.primary.bars[i].day < 0 \/ q.primary.bars[i].day > 4

\* C12: get_kline asks the secondary provider exactly when the primary
\* provider raised or returned no bar dated within [Monday, Friday] of the
\* week, and in these cases before it reports the security as unenriched.
C12_SecondaryFallback ==
    op = "kline" =>
        LET q == quotes[KlineSymbol]
        IN  AskedSecondary <=> (PrimaryRaised(q) \/ PrimaryOutsideWeek(q))


\* The stocks of the list for which the providers give no prices of the week
\* (an exception or an empty window)
NoPrices(list, q) ==
    {i \in 1..Len(list) :
        HasCode(list[i]) /\ get_kline(q, list[i].market, list[i].stock_code) = None}

NoCode(list) == {i \in 1..Len(list) : ~HasCode(list[i])}

\* C13: fetch_kline_data handles every stock of the snapshot once: a stock
\* for which the providers raise or have no bar of the week keeps its
\* openPrice, closePrice, changePct and status and counts as one error, the
\* other stocks are still handled, and success + error is the number of
\* stocks of the snapshot.
C13_FetchPerStock ==
    [][op' = "fetch" =>
          /\ Len(stocks') = Len(stocks)
          /\ ret'.success + ret'.error = Len(stocks)
          /\ ret'.error = Cardinality(NoPrices(stocks, quotes) \cup NoCode(stocks))
          /\ \A i \in NoPrices(stocks, quotes) :
                 /\ stocks'[i].open_price = stocks[i].open_price
                 /\ stocks'[i].close_price = stocks[i].close_price
                 /\ stocks'[i].change_pct = stocks[i].change_pct
                 /\ stocks'[i].status = stocks[i].status]_vars

----------------------------------------------------------------------------
(* Properties of calculate_recommender_stats *)

\* The stocks of a week that list the analyst and have a changePct
PricedPicks(doc, r) ==
    SelectSeq(doc.stocks, LAMBDA s : s.change_pct # None /\ r \in s.recommenders)

\* The analyst's weeks, earliest first (the store lists the latest first)
ScoredWeeks(ws, r) == SelectSeq(Reverse(ws), LAMBDA d : PricedPicks(d, r) # <<>>)

\* The mean of the week's changePct values, in percent
PickMean(doc, r) ==
    LET ps == PricedPicks(doc, r)
    IN  RDiv(RSum([i \in 1..Len(ps) |-> Rat(ps[i].change_pct[1], 100)]), Len(ps))

WeekMeans(ws, r) ==
    LET sw == ScoredWeeks(ws, r) IN [k \in 1..Len(sw) |-> PickMean(sw[k], r)]

\* The product of (1 + mean/100)
RECURSIVE Product(_)
Product(means) ==
    IF means = <<>> THEN Whole(1)
    ELSE RMul(RAdd(Whole(1), RDiv(Head(means), 100)), Product(Tail(means)))

\* The analysts with at least one priced pick in the store
Analysts(ws) ==
    {r \in UNION {WeekAnalysts(ws[k].stocks) : k \in 1..Len(ws)} :
        ScoredWeeks(ws, r) # <<>>}

\* What the recompute of the current store computes for analyst r
ScoreLocals(r) == Locals(AllMentions(weeks, <<rP, rQ>>), r)

\* Analyst p up 10 % in 2024 week 1 and down 10 % in week 2
CompoundExample ==
    <<WeekDoc(2024, 2, <<Priced(nA, SH, n600000, {rP}, -1000)>>),
      WeekDoc(2024, 1, <<Priced(nA, SH, n600000, {rP}, 1000)>>)>>

\* C14: an analyst's netValue is the product, over the analyst's weeks in
\* ascending order, of (1 + weekAvg/100), weekAvg being the mean of the
\* week's non-null changePct values of the stocks listing the analyst, and
\* totalReturn is (netValue - 1) * 100: the stored totalReturn and the stored
\* net value after each week are these values rounded, and weekly averages
\* of +10 then -10 give totalReturn -1.0.
C14_Compounding ==
    op = "stats" =>
        /\ \A i \in 1..Len(stats) :
               LET means == WeekMeans(weeks, stats[i].name)
                   n == Len(means)
               IN  /\ ScoreLocals(stats[i].name).net_value = Product(means)
                   /\ stats[i].total_return =
                          Round(RMul(RSub(Product(means), Whole(1)), Whole(100)), 2)
                   /\ Len(stats[i].weekly_returns) = n
                   /\ \A k \in 1..n :
                          stats[i].weekly_returns[n + 1 - k].net_value =
                              Round(Product(SubSeq(means, 1, k)), 4)
        /\ calculate_recommender_stats(CompoundExample, <<rP, rQ>>)[1].total_return
               = Whole(-1)

\* An analyst up 20 % in one week and down 20 % in another: average 0,
\* totalReturn -4
C14_Witness ==
    /\ op = "stats"
    /\ \E i \in 1..Len(stats) :
           /\ stats[i].weeks_count = 2
           /\ stats[i].avg_return = Whole(0)
           /\ stats[i].total_return = Whole(-4)

\* C15: an analyst whose priced picks fall in a single week with average
\* r > 0 has netValue 1 + r/100, totalReturn r and confidence 0.5, and the
\* score 50 + (rawScore - 50) * 0.5 rounded to one decimal; an analyst with
\* two or more weeks has confidence 1 and the score rawScore rounded to one
\* decimal.
C15_Confidence ==
    op = "stats" =>
        \A i \in 1..Len(stats) :
            LET means == WeekMeans(weeks, stats[i].name)
                l == ScoreLocals(stats[i].name)
            IN  /\ (Len(means) = 1 /\ means[1].n > 0) =>
                       /\ l.net_value = RAdd(Whole(1), RDiv(means[1], 100))
                       /\ l.total_return = means[1]
                       /\ stats[i].total_return = Round(means[1], 2)
                       /\ l.confidence = Rat(1, 2)
                       /\ stats[i].score =
                              Round(RAdd(Whole(50), RDiv(RSub(l.raw_score, Whole(50)), 2)), 1)
                /\ Len(means) >= 2 =>
                       /\ l.confidence = Whole(1)
                       /\ stats[i].score = Round(l.raw_score, 1)

\* One analyst with a single winning week next to one with several weeks
C15_Witness ==
    /\ op = "stats"
    /\ \E i, j \in 1..Len(stats) :
           /\ stats[i].weeks_count = 1
           /\ RLess(Whole(0), stats[i].total_return)
           /\ stats[j].weeks_count >= 2


\* The trend bonus as the specification gives it
ClaimedBonus(tw, pw, nw) ==
    IF tw < 4 THEN Whole(0)
    ELSE IF pw = tw THEN Whole(Min({75 + 5 * (tw - 4), 100}))
    ELSE IF nw = tw THEN Whole(Max({-50 - 5 * (tw - 4), -100}))
    ELSE IF nw > pw THEN Rat(-(nw * 50), tw)
    ELSE Rat(pw * 50, tw)

\* C16: the trend bonus is 0 when totalWeeks < 4; from 4 weeks on it is
\* min(75 + 5*(totalWeeks-4), 100) when every week's average is positive,
\* max(-50 - 5*(totalWeeks-4), -100) when every one is negative,
\* -(negativeWeeks/totalWeeks)*50 when negative weeks outnumber positive
\* ones and (positiveWeeks/totalWeeks)*50 otherwise; it lies in [-100, 100];
\* 4 all-positive weeks give 75, 5 give 80, 4 all-negative weeks give -50.
C16_TrendBonus ==
    op = "stats" =>
        /\ \A i \in 1..Len(stats) :
               LET means == WeekMeans(weeks, stats[i].name)
                   pw == Cardinality({k \in 1..Len(means) : means[k].n > 0})
                   nw == Cardinality({k \in 1..Len(means) : means[k].n < 0})
                   b == ScoreLocals(stats[i].name).weeks_bonus
               IN  /\ b = ClaimedBonus(Len(means), pw, nw)
                   /\ ~RLess(b, Whole(-100)) /\ ~RLess(Whole(100), b)
        /\ \A tw \in 0..MaxTrend : \A pw, nw \in 0..tw :
               pw + nw <= tw =>
                   LET b == weeks_bonus(tw, pw, nw)
                   IN  /\ b = ClaimedBonus(tw, pw, nw)
                       /\ ~RLess(b, Whole(-100)) /\ ~RLess(Whole(100), b)
        /\ weeks_bonus(4, 4, 0) = Whole(75)
        /\ weeks_bonus(5, 5, 0) = Whole(80)
        /\ weeks_bonus(4, 0, 4) = Whole(-50)

\* An analyst with five weeks, all of them positive
C16_Witness ==
    /\ op = "stats"
    /\ \E i \in 1..Len(stats) :
           stats[i].weeks_count = 5 /\ stats[i].positive_weeks = 5

RatingRank(x) ==
    CASE x = "S" -> 5 [] x = "A" -> 4 [] x = "B" -> 3 [] x = "C" -> 2 [] OTHER -> 1

AtLeast(score, k) == ~RLess(score, Whole(k))

\* C17: the stored rating is a function of the stored score: S iff
\* score >= 80, A iff 65 <= score < 80, B iff 45 <= score < 65, C iff
\* 25 <= score < 45, D iff score < 25; a higher score never has a worse rating.
C17_RatingByScore ==
    op = "stats" =>
        /\ \A i \in 1..Len(stats) :
               LET sc == stats[i].score
                   rt == stats[i].rating
               IN  /\ rt = "S" <=> AtLeast(sc, 80)
                   /\ rt = "A" <=> (AtLeast(sc, 65) /\ ~AtLeast(sc, 80))
                   /\ rt = "B" <=> (AtLeast(sc, 45) /\ ~AtLeast(sc, 65))
                   /\ rt = "C" <=> (AtLeast(sc, 25) /\ ~AtLeast(sc, 45))
                   /\ rt = "D" <=> ~AtLeast(sc, 25)
        /\ \A i, j \in 1..Len(stats) :
               RLess(stats[j].score, stats[i].score) =>
                   RatingRank(stats[i].rating) >= RatingRank(stats[j].rating)

\* An analyst whose score is exactly 80.0, rated S
C17_Witness ==
    /\ op = "stats"
    /\ \E i \in 1..Len(stats) :
           stats[i].score = Whole(80) /\ stats[i].rating = "S"

\* The orders in which a list may be stored
Perms(xs) ==
    {[i \in 1..Len(xs) |-> xs[f[i]]] :
        f \in {g \in [1..Len(xs) -> 1..Len(xs)] :
                  \A a, b \in 1..Len(xs) : a # b => g[a] # g[b]}}

\* The stores that differ from ws in the order of one week's stocks
Reorderings(ws) ==
    UNION {{[ws EXCEPT ![k].stocks = q] : q \in Perms(ws[k].stocks)} :
              k \in 1..Len(ws)}

\* C18: the stored list is sorted by score descending, and equal scores are
\* ordered by a rule on the records themselves: a store that holds the same
\* snapshots with the stocks or the recommenders listed in another order is
\* given the same ordered list.
C18_OrderReproducible ==
    op = "stats" =>
        /\ \A i, j \in 1..Len(stats) :
               i < j => ~RLess(stats[i].score, stats[j].score)
        /\ \A w2 \in Reorderings(weeks) : \A ord \in RecommenderOrders :
               calculate_recommender_stats(w2, ord) = stats

\* C19: after calculate_recommender_stats the store holds exactly one record
\* per analyst with a priced pick in the current snapshots, computed from
\* these snapshots, and nothing else, whatever it held before.
C19_StoreReplaced ==
    op = "stats" =>
        /\ StoredAnalysts(stats) = Analysts(weeks)
        /\ Len(stats) = Cardinality(Analysts(weeks))
        /\ \A i \in 1..Len(stats) :
               /\ stats[i].weeks_count = Len(ScoredWeeks(weeks, stats[i].name))
               /\ stats[i].total_count =
                      Cardinality(UNION {{<<k, j>> : j \in {m \in 1..Len(weeks[k].stocks) :
                          /\ weeks[k].stocks[m].change_pct # None
                          /\ stats[i].name \in weeks[k].stocks[m].recommenders}} :
                              k \in 1..Len(weeks)})

\* A recompute after the last week of the store was deleted: nothing is left
C19_Witness ==
    /\ op = "stats" /\ edits > 0
    /\ weeks = <<>> /\ stats = <<>>


----------------------------------------------------------------------------
(* Submitting the raw text and parsing it *)

\* The raw texts an admin submits; an empty text is accepted
RawTexts == {None, RawText, <<"u">>}

\* The items the extraction service may put into content
RawItems ==
    {RawItem(rP, <<"A", " ", "B">>, <<"p", ":", " ", "x">>),
     RawItem(rQ, <<"A">>, None),
     RawItem(rQ, <<"B", " ">>, <<" ", "y">>),
     RawItem(rP, <<"B">>, <<"p", "z">>),
     RawItem(None, <<"A">>, <<"x">>),
     RawItem(rP, <<" ">>, <<"y">>)}

Content(its) == Reply(TRUE, TRUE, 200, TRUE, 0, TRUE, its)
NoToken == Reply(FALSE, TRUE, 200, TRUE, 0, TRUE, <<>>)
Unreachable == Reply(TRUE, FALSE, 0, FALSE, 0, FALSE, <<>>)
BadStatus == Reply(TRUE, TRUE, 500, TRUE, 0, TRUE, <<>>)
BadBody == Reply(TRUE, TRUE, 200, FALSE, 0, FALSE, <<>>)
BadErrcode == Reply(TRUE, TRUE, 200, TRUE, 1, TRUE, <<>>)
BadContent == Reply(TRUE, TRUE, 200, TRUE, 0, FALSE, <<>>)

GeminiAnswers ==
    {NoToken, Unreachable, BadStatus, BadBody, BadErrcode, BadContent}
        \cup {Content(its) : its \in SeqsUpTo(RawItems, MaxItems)}

InitParse ==
    /\ outage = 0
    /\ tracking = <<>>
    /\ synced = {}
    /\ inflight = None
    /\ stocks = <<>>
    /\ raw_text = None
    /\ messages = <<>>
    /\ stats = <<>>
    /\ ratings = <<>>
    /\ kline = None
    /\ asked = <<>>
    /\ weeks = <<>>
    /\ extracted = <<>>
    /\ provider \in {[n \in Names |-> RespRaises]}
    /\ quotes \in {[p \in QuotePairs |-> NoQuote]}
    /\ op = "init"
    /\ ret = NoReturn
    /\ edits = 0
    /\ query = None
    /\ result = NoResult
    /\ netCalls = 0
    /\ ranking = <<>>

\* submit_raw_text stores the text and empties the recommender messages
SubmitRawText ==
    /\ \E t \in RawTexts :
           LET d == save_raw_text(Doc(stocks, raw_text, messages), t, <<>>)
           IN  /\ stocks' = d.stocks
               /\ raw_text' = d.raw_text
               /\ messages' = d.messages
    /\ op' = "submit"
    /\ ret' = NoReturn
    /\ UNCHANGED <<extracted, provider, quotes, edits, query, result, netCalls,
                   ranking, stats, ratings, kline, asked, weeks,
                 outage, tracking, synced, inflight>>

\* parse_with_gemini against any answer of the extraction service
ParseRecommendations ==
    /\ \E a \in GeminiAnswers :
           LET r == parse_with_gemini(Doc(stocks, raw_text, messages), call_gemini_api(a))
           IN  /\ stocks' = r.doc.stocks
               /\ raw_text' = r.doc.raw_text
               /\ messages' = r.doc.messages
               /\ ret' = [NoReturn EXCEPT !.failed = r.failed]
    /\ op' = "parse"
    /\ UNCHANGED <<extracted, provider, quotes, edits, query, result, netCalls,
                   ranking, stats, ratings, kline, asked, weeks,
                 outage, tracking, synced, inflight>>

NextParse == SubmitRawText \/ ParseRecommendations

SpecParse == InitParse /\ [][NextParse]_vars

\* The failures of the extraction the specification names
ExtractionFails(a) ==
    \/ ~a.reachable
    \/ a.status # 200
    \/ a.errcode # 0
    \/ ~a.body_json \/ ~a.content_json
    \/ a.items = <<>>

\* C20: when the extraction fails in parse_with_gemini (service unreachable,
\* status other than 200, non-zero error code, unparsable payload or an empty
\* item list) the operation returns an error, and a parse that returns an
\* error leaves the week's stock list, raw text and recommender messages as
\* they were before the call.
C20_FailedParseWritesNothing ==
    [][op' = "parse" =>
          /\ ret'.failed =>
                 /\ stocks' = stocks
                 /\ raw_text' = raw_text
                 /\ messages' = messages
          /\ \A a \in GeminiAnswers :
                 ExtractionFails(a) =>
                     LET r == parse_with_gemini(Doc(stocks, raw_text, messages),
                                                call_gemini_api(a))
                     IN  r.failed /\ r.doc = Doc(stocks, raw_text, messages)]_vars

\* A parse that failed after an earlier one had stored stocks and messages
C20_Witness ==
    /\ op = "parse" /\ ret.failed
    /\ raw_text # None
    /\ stocks # <<>>
    /\ messages # <<>>


----------------------------------------------------------------------------
(* The admin operations when the snapshot store is lost *)

\* The store raises at access k of an operation and at every later one;
\* k = 0 is a store that stays up.  n is the number of an access.
StoreDown(k, n) == k # 0 /\ n >= k

\* The most store accesses one operation makes: get_week_data, then find_one
\* and update_one of update_stock for every stock
StoreAccesses == 1 + 2 * MaxItems

\* parse_with_gemini: _get_raw_text is access 1, outside the try; the
\* save_week_data of a successful extraction is access 2, inside the try,
\* and its exception is returned as an error
parse_with_gemini_outage(doc, outcome, k) ==
    LET r == parse_with_gemini(doc, outcome)
    IN  IF StoreDown(k, 1) THEN [doc |-> doc, failed |-> TRUE, hit |-> TRUE]
        ELSE IF ~r.failed /\ StoreDown(k, 2)
        THEN [doc |-> doc, failed |-> TRUE, hit |-> TRUE]
        ELSE [doc |-> r.doc, failed |-> r.failed, hit |-> FALSE]

\* resolve_stock_codes: get_week_data is access 1 and save_week_data access
\* 2; neither is guarded, the exception leaves the handler
resolve_stock_codes_outage(list, prov, k) ==
    IF StoreDown(k, 1) THEN [db |-> list, failed |-> TRUE, hit |-> TRUE]
    ELSE IF RaiseIdx(PhaseA(list), prov) # {}
    THEN [db |-> list, failed |-> TRUE, hit |-> FALSE]
    ELSE IF StoreDown(k, 2) THEN [db |-> list, failed |-> TRUE, hit |-> TRUE]
    ELSE [db |-> ResolvedStocks(list, prov), failed |-> FALSE, hit |-> FALSE]

\* fetch_kline_data's loop: update_stock reads the document (one access) and
\* writes it back (another); what it raises is caught by the loop's except
\* and counted as one error
RECURSIVE KlineFoldOutage(_, _, _, _)
KlineFoldOutage(list, q, st, k) ==
    IF list = <<>> THEN st
    ELSE LET s == Head(list)
             kl == get_kline(q, s.market, s.stock_code)
         IN  IF ~HasCode(s) \/ kl = None
             THEN KlineFoldOutage(Tail(list), q, [st EXCEPT !.error = @ + 1], k)
             ELSE IF StoreDown(k, st.calls + 1)
             THEN KlineFoldOutage(Tail(list), q,
                      [st EXCEPT !.error = @ + 1, !.calls = @ + 1, !.hit = TRUE], k)
             ELSE IF NameIdx(st.db, s.stock_name) = {}
             THEN KlineFoldOutage(Tail(list), q,
                      [st EXCEPT !.error = @ + 1, !.calls = @ + 1], k)
             ELSE IF StoreDown(k, st.calls + 2)
             THEN KlineFoldOutage(Tail(list), q,
                      [st EXCEPT !.error = @ + 1, !.calls = @ + 2, !.hit = TRUE], k)
             ELSE KlineFoldOutage(Tail(list), q,
                      [st EXCEPT !.db = update_stock(@, s.stock_name, kl[1]),
                                 !.success = @ + 1, !.calls = @ + 2], k)

\* fetch_kline_data: get_week_data is access 1, not guarded
fetch_kline_data_outage(list, q, k) ==
    IF StoreDown(k, 1)
    THEN [db |-> list, success |-> 0, error |-> 0, calls |-> 1,
          hit |-> TRUE, failed |-> TRUE]
    ELSE KlineFoldOutage(list, q,
             [db |-> list, success |-> 0, error |-> 0, calls |-> 1,
              hit |-> FALSE, failed |-> FALSE], k)

\* Both providers' table when every symbol has the week's bars at the primary
StoreQuotes ==
    [p \in QuotePairs |->
        Quote(Answer(FALSE, <<Bar(0, 10, 10), Bar(4, 11, 11)>>), Raises)]

\* What the extraction service returns for the week in this specification
StoreExtractions ==
    {<<Item(rP, nA), Item(rQ, nB)>>, <<Item(rP, nA), Item(rQ, n600000)>>, <<>>}

InitStore ==
    /\ outage = 0
    /\ tracking = <<>>
    /\ synced = {}
    /\ inflight = None
    /\ stocks = <<>>
    /\ raw_text = RawText
    /\ messages = <<>>
    /\ stats = <<>>
    /\ ratings = <<>>
    /\ kline = None
    /\ asked = <<>>
    /\ weeks = <<>>
    /\ extracted \in StoreExtractions
    /\ provider \in Providers
    /\ quotes \in QuoteTables \cup {StoreQuotes}
    /\ op = "init"
    /\ ret = NoReturn
    /\ edits = 0
    /\ query = None
    /\ result = NoResult
    /\ netCalls = 0
    /\ ranking = <<>>

\* outage is the access at which the operation lost the store, 0 if it did
\* not lose it
ParseOutage ==
    /\ \E k \in 0..2 :
           LET r == parse_with_gemini_outage(Doc(stocks, raw_text, messages),
                                             Outcome(FALSE, extracted), k)
           IN  /\ stocks' = r.doc.stocks
               /\ raw_text' = r.doc.raw_text
               /\ messages' = r.doc.messages
               /\ ret' = [NoReturn EXCEPT !.failed = r.failed]
               /\ outage' = IF r.hit THEN k ELSE 0
    /\ op' = "parse"
    /\ UNCHANGED <<extracted, provider, quotes, edits, query, result, netCalls,
                   ranking, stats, ratings, kline, asked, weeks,
                   tracking, synced, inflight>>

ResolveOutage ==
    /\ \E k \in 0..2 :
           LET r == resolve_stock_codes_outage(stocks, provider, k)
           IN  /\ stocks' = r.db
               /\ ret' = IF r.failed THEN [NoReturn EXCEPT !.failed = TRUE]
                         ELSE [ResolveReturn(stocks, provider) @@ [failed |-> FALSE]
                                  EXCEPT !.failed = FALSE]
               /\ outage' = IF r.hit THEN k ELSE 0
    /\ op' = "resolve"
    /\ UNCHANGED <<raw_text, messages, extracted, provider, quotes, edits, query,
                   result, netCalls, ranking, stats, ratings, kline, asked, weeks,
                   tracking, synced, inflight>>

FetchOutage ==
    /\ \E k \in 0..StoreAccesses :
           LET r == fetch_kline_data_outage(stocks, quotes, k)
           IN  /\ stocks' = r.db
               /\ ret' = [NoReturn EXCEPT !.success = r.success, !.error = r.error,
                                          !.failed = r.failed]
               /\ outage' = IF r.hit THEN k ELSE 0
    /\ op' = "fetch"
    /\ UNCHANGED <<raw_text, messages, extracted, provider, quotes, edits, query,
                   result, netCalls, ranking, stats, ratings, kline, asked, weeks,
                   tracking, synced, inflight>>

NextStore == ParseOutage \/ ResolveOutage \/ FetchOutage

SpecStore == InitStore /\ [][NextStore]_vars

\* C21: when the snapshot store fails during parse, resolve or enrich, the
\* operation fails as a whole and the stored snapshot of the week is the one
\* from before the operation.
C21_StoreFailureAborts ==
    [][outage' # 0 =>
          /\ ret'.failed
          /\ stocks' = stocks
          /\ raw_text' = raw_text
          /\ messages' = messages]_vars


----------------------------------------------------------------------------
(* services/stock.py: get_week_dates.  A datetime is its proleptic         *)
(* Gregorian ordinal (0001-01-01 is day 1), as in Python's datetime.        *)

IsLeap(y) == y % 4 = 0 /\ (y % 100 # 0 \/ y % 400 = 0)

DaysInMonth(y, m) ==
    IF m = 2 THEN (IF IsLeap(y) THEN 29 ELSE 28)
    ELSE IF m \in {4, 6, 9, 11} THEN 30 ELSE 31

DaysBeforeYear(y) ==
    (y - 1) * 365 + ((y - 1) \div 4) - ((y - 1) \div 100) + ((y - 1) \div 400)

RECURSIVE DaysBeforeMonth(_, _)
DaysBeforeMonth(y, m) ==
    IF m = 1 THEN 0 ELSE DaysBeforeMonth(y, m - 1) + DaysInMonth(y, m - 1)

\* datetime(y, m, d).toordinal()
ToOrdinal(y, m, d) == DaysBeforeYear(y) + DaysBeforeMonth(y, m) + d

\* datetime.weekday(): Monday is 0
Weekday(n) == (n + 6) % 7

\* the year, month and day of an ordinal near year y
YearOf(n, y) ==
    CHOOSE yy \in (y - 1)..(y + 1) : DaysBeforeYear(yy) < n /\ n <= DaysBeforeYear(yy + 1)

MonthOf(n, y) ==
    LET yy == YearOf(n, y)
        r == n - DaysBeforeYear(yy)
    IN  CHOOSE m \in 1..12 :
            DaysBeforeMonth(yy, m) < r /\ r <= DaysBeforeMonth(yy, m) + DaysInMonth(yy, m)

DayOf(n, y) ==
    LET yy == YearOf(n, y)
    IN  n - DaysBeforeYear(yy) - DaysBeforeMonth(yy, MonthOf(n, y))

DigitChar(d) ==
    CASE d = 0 -> "0" [] d = 1 -> "1" [] d = 2 -> "2" [] d = 3 -> "3" [] d = 4 -> "4"
      [] d = 5 -> "5" [] d = 6 -> "6" [] d = 7 -> "7" [] d = 8 -> "8" [] OTHER -> "9"

\* the decimal digits of v, zero-padded to width w
RECURSIVE ZeroPad(_, _)
ZeroPad(v, w) == IF w = 0 THEN <<>> ELSE Append(ZeroPad(v \div 10, w - 1), DigitChar(v % 10))

\* strftime('%Y%m%d') of an ordinal near year y
Strftime(n, y) ==
    ZeroPad(YearOf(n, y), 4) \o ZeroPad(MonthOf(n, y), 2) \o ZeroPad(DayOf(n, y), 2)

\* jan4 - timedelta(days=jan4.weekday()) + timedelta(weeks=week-1)
WeekStart(year, week) ==
    LET jan4 == ToOrdinal(year, 1, 4)
    IN  jan4 - Weekday(jan4) + 7 * (week - 1)

get_week_dates_Sunday(year, week) ==
    LET start == WeekStart(year, week) - 1
    IN  [start |-> Strftime(start, year), end |-> Strftime(start + 4, year)]

get_week_dates(year, week) ==
    LET start == WeekStart(year, week)
    IN  [start |-> Strftime(start, year), end |-> Strftime(start + 4, year)]

\* f"{start_date[:4]}-{start_date[4:6]}-{start_date[6:]}"
DateStr(d) == SubSeq(d, 1, 4) \o <<"-">> \o SubSeq(d, 5, 6) \o <<"-">> \o SubSeq(d, 7, 8)


----------------------------------------------------------------------------
(* get_week_dates on its own: every week number of a range of years *)

Years == 2019..LastYear

WeekNumbers == 1..53

InitDates ==
    /\ outage = 0
    /\ tracking = <<>>
    /\ synced = {}
    /\ inflight = None
    /\ stocks = <<>>
    /\ raw_text = None
    /\ messages = <<>>
    /\ stats = <<>>
    /\ ratings = <<>>
    /\ kline = None
    /\ asked = <<>>
    /\ weeks = <<>>
    /\ extracted = <<>>
    /\ provider \in {[n \in Names |-> RespRaises]}
    /\ quotes \in {[p \in QuotePairs |-> NoQuote]}
    /\ op = "init"
    /\ ret = NoReturn
    /\ edits = 0
    /\ query \in Years \X WeekNumbers
    /\ result = NoResult
    /\ netCalls = 0
    /\ ranking = <<>>

\* query is the (year, week) asked for, ret what get_week_dates returns
GetWeekDates ==
    /\ op = "init"
    /\ ret' = get_week_dates(query[1], query[2])
    /\ op' = "dates"
    /\ UNCHANGED <<query, stocks, raw_text, messages, extracted, provider, quotes, edits,
                   result, netCalls, ranking, stats, ratings, kline, asked, weeks,
                   outage, tracking, synced, inflight>>

NextDates == GetWeekDates

SpecDates == InitDates /\ [][NextDates]_vars

----------------------------------------------------------------------------
(* Properties of get_week_dates *)

DigitVal(c) ==
    CASE c = "0" -> 0 [] c = "1" -> 1 [] c = "2" -> 2 [] c = "3" -> 3 [] c = "4" -> 4
      [] c = "5" -> 5 [] c = "6" -> 6 [] c = "7" -> 7 [] c = "8" -> 8 [] OTHER -> 9

RECURSIVE Num(_)
Num(s) == IF s = <<>> THEN 0 ELSE 10 * Num(SubSeq(s, 1, Len(s) - 1)) + DigitVal(s[Len(s)])

\* The date a YYYYMMDD text names
DateOf(s) == [y |-> Num(SubSeq(s, 1, 4)), m |-> Num(SubSeq(s, 5, 6)), d |-> Num(SubSeq(s, 7, 8))]

\* Days since 1970-01-01 of a calendar date, by the era/day-of-era count
CivilDays(y, m, d) ==
    LET yy == IF m <= 2 THEN y - 1 ELSE y
        era == yy \div 400
        yoe == yy - era * 400
        mp == IF m > 2 THEN m - 3 ELSE m + 9
        doy == ((153 * mp + 2) \div 5) + d - 1
        doe == yoe * 365 + (yoe \div 4) - (yoe \div 100) + doy
    IN  era * 146097 + doe - 719468

\* 1970-01-01 was a Thursday; Monday is 0
CivilWeekday(n) == (n + 3) % 7

MonthLen(y, m) ==
    CASE m = 2 -> (IF (y % 4 = 0 /\ y % 100 # 0) \/ y % 400 = 0 THEN 29 ELSE 28)
      [] m \in {4, 6, 9, 11} -> 30
      [] OTHER -> 31

IsDate(s) ==
    /\ Len(s) = 8
    /\ \A i \in 1..8 : s[i] \in Digits
    /\ DateOf(s).m \in 1..12
    /\ DateOf(s).d \in 1..MonthLen(DateOf(s).y, DateOf(s).m)

DayNo(s) == CivilDays(DateOf(s).y, DateOf(s).m, DateOf(s).d)

\* C24: get_week_dates(year, w) returns as start the Monday of the week that
\* contains January 4 of the year, shifted by w - 1 weeks, and as end the
\* Friday four days later; 2024 week 1 is 2024-01-01 to 2024-01-05.
C24_WeekDates ==
    op = "dates" =>
        LET y == query[1]
            w == query[2]
            jan4 == CivilDays(y, 1, 4)
            monday == jan4 - CivilWeekday(jan4)
        IN  /\ IsDate(ret.start) /\ IsDate(ret.end)
            /\ CivilWeekday(DayNo(ret.start)) = 0
            /\ monday <= jan4 /\ jan4 <= monday + 6
            /\ DayNo(ret.start) = monday + 7 * (w - 1)
            /\ DayNo(ret.end) = DayNo(ret.start) + 4
            /\ CivilWeekday(DayNo(ret.end)) = 4
            /\ get_week_dates(2024, 1) =
                   [start |-> <<"2", "0", "2", "4", "0", "1", "0", "1">>,
                    end |-> <<"2", "0", "2", "4", "0", "1", "0", "5">>]

\* A week whose Monday lies in the year before, and one that ends in the
\* year after
C24_Witness ==
    /\ op = "dates"
    /\ \/ query[2] = 1 /\ DateOf(ret.start).y = query[1] - 1
       \/ query[2] = 53 /\ DateOf(ret.end).y = query[1] + 1


----------------------------------------------------------------------------
(* mongodb_db.py: the tracking collection; recommendation.py:
   sync_stock_tracking.  A dict is the sequence of its [key, val] pairs in
   insertion order; synced is the set of <<year, week>> whose snapshot
   carries the tracking_synced flag *)

\* d[k] = v: a key that is present keeps its place
DictSet(d, k, v) ==
    IF \E i \in 1..Len(d) : d[i].key = k
    THEN [i \in 1..Len(d) |-> IF d[i].key = k THEN [key |-> k, val |-> v] ELSE d[i]]
    ELSE Append(d, [key |-> k, val |-> v])

RECURSIVE RecommenderDict(_, _)
RecommenderDict(recs, d) ==
    IF recs = <<>> THEN d
    ELSE RecommenderDict(Tail(recs),
             IF Head(recs).name # None
             THEN DictSet(d, Head(recs).name, Head(recs).reason)
             ELSE d)

RECURSIVE AnalysisFold(_, _)
AnalysisFold(its, parsed) ==
    IF its = <<>> THEN parsed
    ELSE AnalysisFold(Tail(its),
             IF Head(its).stock = None THEN parsed
             ELSE DictSet(parsed, Head(its).stock,
                          RecommenderDict(Head(its).recommenders, <<>>)))

\* The messages that make an input line
InputLines(msgs) == {i \in 1..Len(msgs) : msgs[i].message # None}

\* answer is what the analysis service gives: failed, or a list of items
batch_analyze_recommendations(msgs, answer) ==
    IF InputLines(msgs) = {} THEN <<>>
    ELSE IF answer.failed THEN <<>>
    ELSE AnalysisFold(answer.items, <<>>)

Profile(m, c, n, recs) ==
    [market |-> m, stock_code |-> c, stock_name |-> n, recommendations |-> recs]

Event(t, r, why) == [time |-> t, recommender |-> r, reason |-> why]

\* positions of the profiles that find_one / update_one match
ProfileIdx(track, market, code) ==
    {i \in 1..Len(track) : track[i].market = market /\ track[i].stock_code = code}

IsDuplicate(recs, rec) ==
    \E i \in 1..Len(recs) :
        recs[i].time = rec.time /\ recs[i].recommender = rec.recommender

upsert_stock_tracking_NoDedupe(track, market, code, name, rec) ==
    IF ProfileIdx(track, market, code) # {}
    THEN LET i == Min(ProfileIdx(track, market, code))
         IN  [track EXCEPT ![i] = Profile(market, code, name,
                                          Append(track[i].recommendations, rec))]
    ELSE Append(track, Profile(market, code, name, <<rec>>))

upsert_stock_tracking(track, market, code, name, rec) ==
    IF ProfileIdx(track, market, code) # {}
    THEN LET i == Min(ProfileIdx(track, market, code))
             recs == track[i].recommendations
         IN  [track EXCEPT ![i] = Profile(market, code, name,
                                          IF IsDuplicate(recs, rec) THEN recs
                                          ELSE Append(recs, rec))]
    ELSE Append(track, Profile(market, code, name, <<rec>>))

\* The text stored for an empty reason
NoReason == <<"-">>

RECURSIVE RecommenderFold(_, _, _, _, _, _)
RecommenderFold(rd, market, code, name, date, st) ==
    IF rd = <<>> THEN st
    ELSE RecommenderFold(Tail(rd), market, code, name, date,
             [st EXCEPT
                 !.db = upsert_stock_tracking(st.db, market, code, name,
                            Event(date, Head(rd).key,
                                  IF Head(rd).val # None THEN Head(rd).val ELSE NoReason)),
                 !.synced = st.synced + 1,
                 !.writes = st.writes + 1])

RECURSIVE TrackingFold(_, _, _, _)
TrackingFold(parsed, prov, date, st) ==
    IF parsed = <<>> THEN st
    ELSE LET stock_name == Head(parsed).key
             info == search_stock(stock_name, prov[stock_name])
             sent == [st EXCEPT !.calls = st.calls + SearchCalls(stock_name)]
         IN  TrackingFold(Tail(parsed), prov, date,
                 IF info.tag # "ok" THEN sent
                 ELSE RecommenderFold(Head(parsed).val, info.market, info.code,
                          IF info.name # None THEN info.name ELSE stock_name,
                          date, sent))

\* db is the tracking collection after the call, mark whether the week is
\* flagged by it, calls the requests sent and writes the store writes made
sync_stock_tracking(year, week, force, msgs, flag, answer, prov, track) ==
    LET quiet == [db |-> track, synced |-> 0, skipped |-> FALSE, mark |-> FALSE,
                  calls |-> 0, writes |-> 0]
    IN  IF ~force /\ flag THEN [quiet EXCEPT !.skipped = TRUE]
        ELSE IF msgs = <<>> THEN quiet
        ELSE LET date_str == DateStr(get_week_dates(year, week).start)
                 parsed == batch_analyze_recommendations(msgs, answer)
                 asks == IF InputLines(msgs) = {} THEN 0 ELSE 1
             IN  IF parsed = <<>> THEN [quiet EXCEPT !.calls = asks]
                 ELSE LET st == TrackingFold(parsed, prov, date_str,
                                    [quiet EXCEPT !.calls = asks])
                      IN  IF st.synced > 0
                          THEN [st EXCEPT !.mark = TRUE, !.writes = st.writes + 1]
                          ELSE st

\* $pull of the events with the week's date
reset_week_tracking_sync(year, week, track) ==
    LET date_str == DateStr(get_week_dates(year, week).start)
    IN  [i \in 1..Len(track) |->
            [track[i] EXCEPT !.recommendations =
                SelectSeq(track[i].recommendations, LAMBDA e : e.time # date_str)]]

----------------------------------------------------------------------------
(* Syncs of three stored weeks, forced or not, in any order; weeks holds
   each week's recommender_messages *)

TrackWeeks == {<<2023, 53>>, <<2024, 1>>, <<2024, 2>>}

Message(r, m) == [recommender |-> r, message |-> m]

\* One table has messages in every week; the other has a week without
\* messages and a week whose only message is empty
MessageTables ==
    {[k \in TrackWeeks |-> <<Message(rP, <<"x">>), Message(rQ, <<"y">>)>>],
     [k \in TrackWeeks |->
         IF k[2] = 1 THEN <<Message(rP, <<"x">>)>>
         ELSE IF k[2] = 2 THEN <<>>
         ELSE <<Message(rP, None)>>]}

Pick(n, why) == [name |-> n, reason |-> why]

Analysed(n, recs) == [stock |-> n, recommenders |-> recs]

\* What the analysis service answers: a failure, two names of which the
\* first has a recommender twice and the second an entry without a name,
\* a stock listed twice next to an item without a name, and a six-digit
\* name
AnalysisAnswers ==
    {[failed |-> TRUE, items |-> <<>>],
     [failed |-> FALSE,
      items |-> <<Analysed(nA, <<Pick(rP, <<"x">>), Pick(rP, None)>>),
                  Analysed(nB, <<Pick(rP, None), Pick(None, <<"x">>)>>)>>],
     [failed |-> FALSE,
      items |-> <<Analysed(nA, <<Pick(rP, None)>>),
                  Analysed(None, <<Pick(rP, None)>>),
                  Analysed(nA, <<Pick(rQ, <<"y">>)>>)>>],
     [failed |-> FALSE, items |-> <<Analysed(n600000, <<Pick(rQ, None)>>)>>]}

\* A and B are both SH600000, or A is HK00981 and B is SH600000, or A is
\* HK00981 and B is not found
TrackProviders ==
    {f \in Providers :
        \/ f[nA] = Payload(<<candShA>>) /\ f[nB] = Payload(<<candShB>>)
        \/ f[nA] = Payload(<<candShort, candHkA>>) /\ f[nB] \in {RespStatus, Payload(<<candShB>>)}}

InitTrack ==
    /\ outage = 0
    /\ tracking = <<>>
    /\ synced = {}
    /\ inflight = None
    /\ stocks = <<>>
    /\ raw_text = None
    /\ messages = <<>>
    /\ stats = <<>>
    /\ ratings = <<>>
    /\ kline = None
    /\ asked = <<>>
    /\ weeks \in MessageTables
    /\ extracted = <<>>
    /\ provider \in TrackProviders
    /\ quotes \in {[p \in QuotePairs |-> NoQuote]}
    /\ op = "init"
    /\ ret = NoReturn
    /\ edits = 0
    /\ query = None
    /\ result = NoResult
    /\ netCalls = 0
    /\ ranking = <<>>

SyncStockTracking ==
    /\ \E k \in TrackWeeks, force \in BOOLEAN, a \in AnalysisAnswers :
           LET r == sync_stock_tracking(k[1], k[2], force, weeks[k], k \in synced,
                                        a, provider, tracking)
           IN  /\ tracking' = r.db
               /\ synced' = IF r.mark THEN synced \cup {k} ELSE synced
    /\ op' = "sync"
    /\ UNCHANGED <<stocks, raw_text, messages, extracted, provider, quotes, ret,
                   edits, query, result, netCalls, ranking, stats, ratings, kline,
                   asked, weeks, outage, inflight>>

ResetWeekSync ==
    /\ \E k \in TrackWeeks :
           /\ tracking' = reset_week_tracking_sync(k[1], k[2], tracking)
           /\ synced' = synced \ {k}
    /\ op' = "reset"
    /\ UNCHANGED <<stocks, raw_text, messages, extracted, provider, quotes, ret,
                   edits, query, result, netCalls, ranking, stats, ratings, kline,
                   asked, weeks, outage, inflight>>

NextTrack == SyncStockTracking \/ ResetWeekSync

SpecTrack == InitTrack /\ [][NextTrack]_vars

----------------------------------------------------------------------------
(* Properties of the tracking collection *)

\* C22: after any sequence of sync_stock_tracking calls, forced or not, on
\* the same or on different weeks, no profile holds two events with the
\* same (time, recommender) and there is at most one profile per
\* (market, code).
C22_TrackingUnique ==
    /\ \A i \in 1..Len(tracking) :
           \A a, b \in 1..Len(tracking[i].recommendations) :
               /\ tracking[i].recommendations[a].time = tracking[i].recommendations[b].time
               /\ tracking[i].recommendations[a].recommender =
                      tracking[i].recommendations[b].recommender
               => a = b
    /\ \A i, j \in 1..Len(tracking) :
           /\ tracking[i].market = tracking[j].market
           /\ tracking[i].stock_code = tracking[j].stock_code
           => i = j

\* Two weeks that start on the same day are both flagged, so the sync of
\* the second found its events stored already, on a profile that holds an
\* event of another week and events of two recommenders as well
C22_Witness ==
    /\ op = "sync"
    /\ {<<2023, 53>>, <<2024, 1>>} \subseteq synced
    /\ \E i \in 1..Len(tracking) :
           /\ \E a, b \in 1..Len(tracking[i].recommendations) :
                  tracking[i].recommendations[a].time # tracking[i].recommendations[b].time
           /\ \E a, b \in 1..Len(tracking[i].recommendations) :
                  tracking[i].recommendations[a].recommender #
                      tracking[i].recommendations[b].recommender


----------------------------------------------------------------------------
(* recommendation.py: the outbound requests of resolve_stock_codes and of
   fetch_kline_data, in the order they are sent; "search" is a request to
   the symbol-lookup provider, "tx" and "sina" are requests to the quote
   providers, "sleep" is time.sleep *)

\* The lookup loop has no time.sleep
RECURSIVE LookupCalls(_, _)
LookupCalls(list, prov) ==
    IF list = <<>> THEN <<>>
    ELSE LET s == Head(list)
             sent == IF SearchCalls(s.stock_name) = 1 THEN <<"search">> ELSE <<>>
         IN  IF HasCode(s) THEN LookupCalls(Tail(list), prov)
             ELSE IF Lookup(s, prov).tag = "raise" THEN sent
             ELSE sent \o LookupCalls(Tail(list), prov)

\* An entry without a code is passed over before the sleep; every other
\* entry ends in the sleep
RECURSIVE KlineCalls(_, _)
KlineCalls(list, q) ==
    IF list = <<>> THEN <<>>
    ELSE LET s == Head(list)
             quote == IF <<s.market, s.stock_code>> \in DOMAIN q
                      THEN q[<<s.market, s.stock_code>>] ELSE NoQuote
         IN  IF ~HasCode(s) THEN KlineCalls(Tail(list), q)
             ELSE get_price(quote).asked \o <<"sleep">> \o KlineCalls(Tail(list), q)

\* asked is the trace of the last resolve or fetch
ResolveCalls ==
    /\ IF RaiseIdx(PhaseA(stocks), provider) # {}
       THEN /\ ret' = [NoReturn EXCEPT !.failed = TRUE]
            /\ UNCHANGED stocks
       ELSE /\ stocks' = ResolvedStocks(stocks, provider)
            /\ ret' = [ResolveReturn(stocks, provider) @@ [failed |-> FALSE]
                          EXCEPT !.failed = FALSE]
    /\ asked' = LookupCalls(PhaseA(stocks), provider)
    /\ op' = "resolve"
    /\ UNCHANGED <<extracted, provider, quotes, edits, query, result, netCalls,
                   ranking, raw_text, messages, stats, ratings, kline, weeks,
                   outage, tracking, synced, inflight>>

FetchCalls ==
    LET r == fetch_kline_data(stocks, quotes)
    IN  /\ stocks' = r.db
        /\ ret' = [NoReturn EXCEPT !.success = r.success, !.error = r.error]
        /\ asked' = KlineCalls(stocks, quotes)
        /\ op' = "fetch"
        /\ UNCHANGED <<extracted, provider, quotes, edits, query, result, netCalls,
                       ranking, raw_text, messages, stats, ratings, kline, weeks,
                       outage, tracking, synced, inflight>>

NextCalls == ParseWithGemini \/ ResolveCalls \/ FetchCalls

SpecCalls == InitStore /\ [][NextCalls]_vars

IsCall(e) == e # "sleep"

\* C23: in resolve_stock_codes and in fetch_kline_data every outbound call
\* to the symbol-lookup provider or to a quote provider is followed by the
\* delay before the next outbound call of the batch: no two calls happen
\* without a delay between them.
C23_DelayBetweenCalls ==
    op \in {"resolve", "fetch"} =>
        \A i, j \in 1..Len(asked) :
            i < j /\ IsCall(asked[i]) /\ IsCall(asked[j])
            => \E k \in (i + 1)..(j - 1) : asked[k] = "sleep"


----------------------------------------------------------------------------
(* Two admin requests on one week, interleaved at their store accesses:
   resolve_stock_codes reads the week, then saves it; fetch_kline_data
   reads the week, then for each entry update_stock finds the week and
   writes its list.  inflight holds what each request has in hand: the
   document resolve read, the entries fetch has still to go through, and
   the list update_stock is about to write *)

Idle == [resolve |-> None, fetch |-> None, upd |-> None]

HasPrice(s) == s.open_price # None

InitRace ==
    /\ outage = 0
    /\ tracking = <<>>
    /\ synced = {}
    /\ inflight = Idle
    /\ extracted \in StoreExtractions \ {<<>>}
    /\ stocks = parse_with_gemini(Doc(<<>>, RawText, <<>>),
                                  Outcome(FALSE, extracted)).doc.stocks
    /\ raw_text = RawText
    /\ messages = parse_with_gemini(Doc(<<>>, RawText, <<>>),
                                    Outcome(FALSE, extracted)).doc.messages
    /\ stats = <<>>
    /\ ratings = <<>>
    /\ kline = None
    /\ asked = <<>>
    /\ weeks = <<>>
    /\ provider \in Providers
    /\ quotes \in QuoteTables \cup {StoreQuotes}
    /\ op = "init"
    /\ ret = NoReturn
    /\ edits = 0
    /\ query = None
    /\ result = NoResult
    /\ netCalls = 0
    /\ ranking = <<>>

\* get_week_data at the start of resolve_stock_codes
ResolveRead ==
    /\ inflight.resolve = None
    /\ inflight' = [inflight EXCEPT !.resolve = <<Doc(stocks, raw_text, messages)>>]
    /\ op' = "resolve_read"
    /\ UNCHANGED <<stocks, raw_text, messages, extracted, provider, quotes, ret, edits,
                   query, result, netCalls, ranking, stats, ratings, kline, asked,
                   weeks, outage, tracking, synced>>

\* The rest of resolve_stock_codes, on the document it read; query keeps
\* the list that was stored when the save arrived
ResolveSave ==
    /\ inflight.resolve # None
    /\ LET data == inflight.resolve[1]
       IN  IF RaiseIdx(PhaseA(data.stocks), provider) # {}
           THEN /\ ret' = [NoReturn EXCEPT !.failed = TRUE]
                /\ UNCHANGED <<stocks, raw_text, messages>>
           ELSE LET d == save_week_data(Doc(stocks, raw_text, messages),
                                        ResolvedStocks(data.stocks, provider),
                                        data.raw_text, data.messages)
                IN  /\ stocks' = d.stocks
                    /\ raw_text' = d.raw_text
                    /\ messages' = d.messages
                    /\ ret' = [ResolveReturn(data.stocks, provider) @@ [failed |-> FALSE]
                                  EXCEPT !.failed = FALSE]
    /\ query' = stocks
    /\ inflight' = [inflight EXCEPT !.resolve = None]
    /\ op' = "resolve_save"
    /\ UNCHANGED <<extracted, provider, quotes, edits, result, netCalls, ranking,
                   stats, ratings, kline, asked, weeks, outage, tracking, synced>>

\* get_week_data at the start of fetch_kline_data
FetchRead ==
    /\ inflight.fetch = None
    /\ inflight.upd = None
    /\ stocks # <<>>
    /\ inflight' = [inflight EXCEPT !.fetch = <<stocks>>]
    /\ op' = "fetch_read"
    /\ UNCHANGED <<stocks, raw_text, messages, extracted, provider, quotes, ret, edits,
                   query, result, netCalls, ranking, stats, ratings, kline, asked,
                   weeks, outage, tracking, synced>>

\* One turn of the loop up to update_stock's find_one: the list with the
\* entry's prices set is what update_stock will write
FetchStep ==
    /\ inflight.fetch # None
    /\ inflight.upd = None
    /\ LET s == Head(inflight.fetch[1])
           rest == IF Tail(inflight.fetch[1]) = <<>> THEN None
                   ELSE <<Tail(inflight.fetch[1])>>
           k == get_kline(quotes, s.market, s.stock_code)
       IN  inflight' = [inflight EXCEPT
                           !.fetch = rest,
                           !.upd = IF HasCode(s) /\ k # None
                                      /\ NameIdx(stocks, s.stock_name) # {}
                                   THEN <<update_stock(stocks, s.stock_name, k[1])>>
                                   ELSE None]
    /\ op' = "fetch_step"
    /\ UNCHANGED <<stocks, raw_text, messages, extracted, provider, quotes, ret, edits,
                   query, result, netCalls, ranking, stats, ratings, kline, asked,
                   weeks, outage, tracking, synced>>

\* update_stock's update_one: $set of the whole list
UpdateWrite ==
    /\ inflight.upd # None
    /\ stocks' = inflight.upd[1]
    /\ query' = stocks
    /\ inflight' = [inflight EXCEPT !.upd = None]
    /\ op' = "update_write"
    /\ UNCHANGED <<raw_text, messages, extracted, provider, quotes, ret, edits,
                   result, netCalls, ranking, stats, ratings, kline, asked,
                   weeks, outage, tracking, synced>>

NextRace ==
    \/ ResolveRead
    \/ ResolveSave
    \/ FetchRead
    \/ FetchStep
    \/ UpdateWrite

SpecRace == InitRace /\ [][NextRace]_vars

\* C25: when resolve_stock_codes and fetch_kline_data interleave on one
\* week, each write replaces the stored stock list by the writer's own
\* copy without merging: resolve saves what it computed from the list it
\* read, so a price committed in between is gone, and update_stock writes
\* the list it found with one entry changed; the stored list is the one
\* of the last write.
C25_LastWriteWins ==
    [][/\ (op' = "resolve_save" /\ ~ret'.failed) =>
              /\ stocks' = ResolvedStocks(inflight.resolve[1].stocks, provider)
              /\ \A i \in 1..Len(stocks') :
                     HasPrice(stocks'[i]) =>
                         \E j \in 1..Len(inflight.resolve[1].stocks) :
                             inflight.resolve[1].stocks[j].open_price = stocks'[i].open_price
       /\ op' = "update_write" => stocks' = inflight.upd[1]]_vars

\* A save of resolve that arrived on a list with a price committed after
\* resolve's read, and left no price
C25_Witness ==
    /\ op = "resolve_save"
    /\ ~ret.failed
    /\ \E j \in 1..Len(query) : HasPrice(query[j]) /\ query[j].status = "completed"
    /\ \A i \in 1..Len(stocks) : ~HasPrice(stocks[i])


----------------------------------------------------------------------------
(* Recommenders through resolve_stock_codes *)

AllRecommenders(list) == UNION {list[i].recommenders : i \in 1..Len(list)}

\* The (market, code) an entry of the list read has after the lookup loop
PairAfterLookup(s, prov) ==
    IF HasCode(s) THEN <<s.market, s.stock_code>>
    ELSE IF Lookup(s, prov).tag = "ok"
    THEN <<Lookup(s, prov).market, Lookup(s, prov).code>>
    ELSE None

\* Entry s of the list read went into entry t of the list saved: an entry
\* with the literal name of s has the pair of t, or none and the name of t
MergedInto(s, t, list, prov) ==
    \E j \in NameIdx(list, s.stock_name) :
        IF HasCode(t)
        THEN PairAfterLookup(list[j], prov) = <<t.market, t.stock_code>>
        ELSE PairAfterLookup(list[j], prov) = None /\ list[j].stock_name = t.stock_name

\* C26: for a snapshot whose entries all have a name, resolve_stock_codes
\* neither loses nor invents recommendations: every recommender of an
\* entry before the call is on an entry after it, and every recommender of
\* an entry after the call was, before, on an entry merged into it (same
\* literal name, or same resolved (market, code)).
C26_RecommendersKept ==
    [][(/\ op' = "resolve"
        /\ ~ret'.failed
        /\ \A i \in 1..Len(stocks) : stocks[i].stock_name # None) =>
           /\ AllRecommenders(stocks) \subseteq AllRecommenders(stocks')
           /\ \A i \in 1..Len(stocks') :
                  \A r \in stocks'[i].recommenders :
                      \E j \in 1..Len(stocks) :
                          /\ r \in stocks[j].recommenders
                          /\ MergedInto(stocks[j], stocks'[i], stocks, provider)]_vars

\* A resolve that merged two entries of different recommenders into one
C26_Witness ==
    /\ op = "resolve"
    /\ ~ret.failed
    /\ ret.merged > 0
    /\ Len(stocks) = 1
    /\ stocks[1].recommenders = {rP, rQ}


\* C27: fetch_kline_data writes the prices fetched for a (market, code)
\* onto the entry that carries this pair and onto no other: an entry whose
\* prices or status change in a fetch has a code, and gets the prices of
\* the bars of its own code; an entry without a code never becomes
\* completed.
C27_PricesOnOwnEntry ==
    [][op' = "fetch" =>
          \A i \in 1..Len(stocks) :
              (\/ stocks'[i].open_price # stocks[i].open_price
               \/ stocks'[i].close_price # stocks[i].close_price
               \/ stocks'[i].change_pct # stocks[i].change_pct
               \/ stocks'[i].status # stocks[i].status) =>
                  /\ HasCode(stocks[i])
                  /\ get_kline(quotes, stocks[i].market, stocks[i].stock_code) # None
                  /\ stocks'[i].open_price =
                         get_kline(quotes, stocks[i].market, stocks[i].stock_code)[1].open_price
                  /\ stocks'[i].close_price =
                         get_kline(quotes, stocks[i].market, stocks[i].stock_code)[1].close_price]_vars


----------------------------------------------------------------------------
(* calculate_recommender_stats over long histories of one analyst: the
   first weeks lose 50 percent, the later weeks gain 100 percent, with one
   or two picks a week *)

HistoryWeek(i, down, picks) ==
    LET pct == IF i <= down THEN -5000 ELSE 10000
    IN  IF picks = 1 THEN <<Priced(nA, SH, n600000, {rP}, pct)>>
        ELSE <<Priced(nA, SH, n600000, {rP}, pct), Priced(nB, BJ, c920116, {rP}, pct)>>

\* get_all_weeks sorts by year and week, latest first
HistoryStores ==
    UNION {{[j \in 1..n |-> WeekDoc(2024, n + 1 - j, HistoryWeek(n + 1 - j, down, picks))] :
               down \in 0..n, picks \in 1..2} : n \in 1..MaxHistory}

InitHistory ==
    /\ outage = 0
    /\ tracking = <<>>
    /\ synced = {}
    /\ inflight = None
    /\ weeks \in HistoryStores
    /\ stats = <<>>
    /\ stocks = <<>>
    /\ raw_text = None
    /\ messages = <<>>
    /\ extracted = <<>>
    /\ provider \in {[n \in Names |-> RespRaises]}
    /\ quotes \in {[p \in QuotePairs |-> NoQuote]}
    /\ op = "init"
    /\ ret = NoReturn
    /\ edits = 0
    /\ query = None
    /\ result = NoResult
    /\ netCalls = 0
    /\ ranking = <<>>
    /\ ratings = <<>>
    /\ kline = None
    /\ asked = <<>>

RecomputeHistory ==
    /\ op = "init"
    /\ CalculateRecommenderStats

NextHistory == RecomputeHistory

SpecHistory == InitHistory /\ [][NextHistory]_vars

\* C28 as stated: the score that calculate_recommender_stats stores for an
\* analyst lies in [0, 100] for every history of weekly returns and pick
\* counts.
C28_ScoreInRange ==
    \A i \in 1..Len(stats) :
        ~RLess(stats[i].score, Whole(0)) /\ ~RLess(Whole(100), stats[i].score)

\* C28, amended: the stored score lies in [-0.7, 100]; it is below 0 only
\* for an analyst with at least 13 weeks, all of them negative, and fewer
\* than 15 picks.
C28_ScoreBounds ==
    \A i \in 1..Len(stats) :
        /\ ~RLess(stats[i].score, Rat(-7, 10))
        /\ ~RLess(Whole(100), stats[i].score)
        /\ RLess(stats[i].score, Whole(0)) =>
               /\ stats[i].weeks_count >= 13
               /\ stats[i].positive_weeks = 0
               /\ \A k \in 1..Len(stats[i].weekly_returns) :
                      RLess(stats[i].weekly_returns[k].return, Whole(0))
               /\ stats[i].total_count < 15

\* Fourteen losing weeks with one pick each give -0.7; sixteen winning
\* weeks give 100
C28_Witness ==
    /\ op = "stats"
    /\ \E i \in 1..Len(stats) :
           \/ stats[i].score = Rat(-7, 10) /\ stats[i].weeks_count = 14
           \/ stats[i].score = Whole(100)


\* C29 as stated: the participation sub-scores never decrease with more
\* participation: weeks_score is non-decreasing in total_weeks and
\* count_score is non-decreasing in the total pick count, across the
\* thresholds (3 weeks, 5 picks) as well as on each side of them.
C29_ParticipationMonotone ==
    op = "stats" =>
        \A i \in 1..Len(stats) :
            /\ stats[i].weeks_count > 1 =>
                   ~RLess(weeks_score(stats[i].weeks_count),
                          weeks_score(stats[i].weeks_count - 1))
            /\ stats[i].total_count > 1 =>
                   ~RLess(count_score(stats[i].total_count),
                          count_score(stats[i].total_count - 1))

\* C29, amended: weeks_score is non-decreasing in total_weeks, across its
\* threshold too; count_score is non-decreasing below five picks and from
\* five picks on, and drops at the threshold, from 40 for four picks to
\* 33.3 for five.
C29_MonotoneButAtFive ==
    op = "stats" =>
        \A i \in 1..Len(stats) :
            /\ stats[i].weeks_count > 1 =>
                   ~RLess(weeks_score(stats[i].weeks_count),
                          weeks_score(stats[i].weeks_count - 1))
            /\ (stats[i].total_count > 1 /\ stats[i].total_count # 5) =>
                   ~RLess(count_score(stats[i].total_count),
                          count_score(stats[i].total_count - 1))
            /\ stats[i].total_count = 5 =>
                   /\ count_score(5) = Rat(100, 3)
                   /\ count_score(4) = Whole(40)
                   /\ RLess(count_score(5), count_score(4))

\* An analyst with five picks in five weeks
C29_Witness ==
    /\ op = "stats"
    /\ \E i \in 1..Len(stats) : stats[i].total_count = 5 /\ stats[i].weeks_count = 5


----------------------------------------------------------------------------
(* One week that is submitted, parsed, resolved and synced to the tracking
   collection, in any order.  save_week_data and _save_raw_text set their
   own fields of the week's document and leave tracking_synced as it is *)

FlagWeek == <<2024, 2>>

InitFlag ==
    /\ outage = 0
    /\ tracking = <<>>
    /\ synced = {}
    /\ inflight = None
    /\ stocks = <<>>
    /\ raw_text = None
    /\ messages = <<>>
    /\ stats = <<>>
    /\ ratings = <<>>
    /\ kline = None
    /\ asked = <<>>
    /\ weeks = <<>>
    /\ extracted = <<>>
    /\ provider \in TrackProviders
    /\ quotes \in {[p \in QuotePairs |-> NoQuote]}
    /\ op = "init"
    /\ ret = NoReturn
    /\ edits = 0
    /\ query = None
    /\ result = NoResult
    /\ netCalls = 0
    /\ ranking = <<>>

\* sync_stock_tracking of the week; query is <<force, skipped>>, netCalls
\* the requests it sent and edits the store writes it made
SyncWeek ==
    /\ \E force \in BOOLEAN, a \in AnalysisAnswers :
           LET r == sync_stock_tracking(FlagWeek[1], FlagWeek[2], force, messages,
                                        FlagWeek \in synced, a, provider, tracking)
           IN  /\ tracking' = r.db
               /\ synced' = IF r.mark THEN synced \cup {FlagWeek} ELSE synced
               /\ netCalls' = r.calls
               /\ edits' = r.writes
               /\ ret' = [NoReturn EXCEPT !.success = r.synced]
               /\ query' = <<force, r.skipped>>
    /\ op' = "sync"
    /\ UNCHANGED <<stocks, raw_text, messages, extracted, provider, quotes,
                   result, ranking, stats, ratings, kline, asked, weeks,
                   outage, inflight>>

\* What the extraction service answers for the week: nothing, or one
\* analyst's message
FlagAnswers ==
    {Unreachable,
     Content(<<RawItem(rP, <<"A", " ", "B">>, <<"p", ":", " ", "x">>)>>),
     Content(<<RawItem(rQ, <<"B", " ">>, <<" ", "y">>)>>)}

ParseWeek ==
    /\ \E a \in FlagAnswers :
           LET r == parse_with_gemini(Doc(stocks, raw_text, messages), call_gemini_api(a))
           IN  /\ stocks' = r.doc.stocks
               /\ raw_text' = r.doc.raw_text
               /\ messages' = r.doc.messages
               /\ ret' = [NoReturn EXCEPT !.failed = r.failed]
    /\ op' = "parse"
    /\ UNCHANGED <<extracted, provider, quotes, edits, query, result, netCalls,
                   ranking, stats, ratings, kline, asked, weeks,
                   outage, tracking, synced, inflight>>

NextFlag ==
    \/ SubmitRawText
    \/ ParseWeek
    \/ ResolveStockCodes
    \/ SyncWeek

SpecFlag == InitFlag /\ [][NextFlag]_vars

\* C30: once sync_stock_tracking has set the week's flag, an operation
\* that replaces the week's recommendations (submit_raw_text, a successful
\* parse_with_gemini or resolve_stock_codes) clears it, so that the next
\* non-forced sync processes the new recommendations; and a non-forced
\* sync of a flagged week sends no request and writes nothing.
C30_FlagFollowsContent ==
    [][/\ (/\ FlagWeek \in synced
           /\ \/ op' = "submit"
              \/ op' \in {"parse", "resolve"} /\ ~ret'.failed) =>
              FlagWeek \notin synced'
       /\ (op' = "sync" /\ ~query'[1] /\ FlagWeek \in synced) =>
              /\ query'[2]
              /\ netCalls' = 0
              /\ edits' = 0
              /\ tracking' = tracking
              /\ synced' = synced]_vars

====
